---- MODULE Spec2Model ----
(***************************************************************************)
(* Quick-commerce delivery simulation (SimulationSection and mapUtils).   *)
(*                                                                         *)
(* Units of the model:                                                     *)
(*   coordinates        1e-4 degree (lat, lng as integers)                 *)
(*   distances          metres                                             *)
(*   time               simulated minutes                                  *)
(*   fatigueFactor      hundredths (100 = 1.0, 50 = 0.5)                   *)
(*   traffic factor     tenths (10 = 1.0)                                  *)
(*   legProgress        thousandths (PScale = 1.0); while at_store the     *)
(*                      code reuses the field as minutes, also scaled      *)
(*   Math.random()      hundredths, drawn from RandVals                    *)
(*   radii              tenths of a km                                     *)
(***************************************************************************)
EXTENDS Integers, Sequences, FiniteSets, TLC

(***************************************************************************)
(* Bounds of the model                                                     *)
(***************************************************************************)
MaxTicks == 8
MaxOrders == 3
MaxAgents == 2
MaxFatigueTicks == 40
MaxCtlTicks == 2
MaxAiTicks == 7
MaxAiOrders == 1
MaxNow == 6
MaxOptAgents == 3
MaxOptRuns == 2
MaxOptSweepRuns == 3
MaxRecRows == 2
MaxFormZones == 1
MaxStoredProfiles == 1
MaxCycleTicks == 8
MaxCycleOrders == 2
MaxGenTicks == 300

(***************************************************************************)
(* Program constants                                                       *)
(***************************************************************************)
MINUTES_PER_SIMULATION_STEP == 5
DYNAMIC_TRAFFIC_UPDATE_INTERVAL_STEPS == 12
HANDLING_TIME_AT_STORE == 5
timeAtStore == 5
MAX_ATTEMPTS == 200
FATIGUE_THRESHOLD_DELIVERIES == 5
FATIGUE_THRESHOLD_TIME_MIN == 180
FATIGUE_RECOVERY_IDLE_TIME_MIN == 30
FATIGUE_FACTOR_REDUCTION == 15
FATIGUE_FACTOR_RECOVERY_RATE == 25
FatigueFloor == 50
FatigueFull == 100
baseOrderRate == 15
focusedRadiusKm == 50
aiAnalysisCooldownMs == 2
dynamicEventCooldownMs == 3
MIN_DELIVERY_COMPLETION_RATE_TARGET == 90
TARGET_SLA_PERCENTAGE_TARGET == 85
IDEAL_AGENT_UTILIZATION_MIN_PERCENT == 65
IDEAL_AGENT_UTILIZATION_MAX_PERCENT == 85
BASE_HANDLING_TIME_MIN_OPT == 5
AGENT_COST_PER_HOUR == 150
COST_PER_KM_TRAVEL == 5

Null == 0 - 1
PScale == 1000
LatUnitMeters == 11
LngUnitMeters == 10

defaultDarkStoreLocationSim == <<307333, 767794>>

\* GeoJSON ring, each vertex in GeoJSON order <<lng, lat>>
ccrRing ==
  << <<766500, 308500>>, <<769000, 308500>>, <<769000, 306000>>,
     <<766500, 306000>>, <<766500, 308500>> >>

Min(a, b) == IF a <= b THEN a ELSE b
Max(a, b) == IF a >= b THEN a ELSE b

(***************************************************************************)
(* Geometry (mapUtils)                                                     *)
(***************************************************************************)
RECURSIVE SqrtSearch(_, _, _)
SqrtSearch(n, lo, hi) ==
  IF lo >= hi THEN lo
  ELSE LET mid == (lo + hi + 1) \div 2
       IN  IF mid * mid <= n THEN SqrtSearch(n, mid, hi)
           ELSE SqrtSearch(n, lo, mid - 1)

ISqrt(n) == SqrtSearch(n, 0, Min(n, 46340))

\* great-circle distance of two <<lat, lng>> points, in metres; the region
\* is small enough for the planar form of the haversine formula
getDistanceKm(p, q) ==
  LET dLat == (q[1] - p[1]) * LatUnitMeters
      dLon == (q[2] - p[2]) * LngUnitMeters
  IN  ISqrt(dLat * dLat + dLon * dLon)

\* ray casting; the point is <<lat, lng>>, and so is every vertex read:
\* x = point[1] (0-based) = lng, xi = polygonCoords[i][1], yi = polygonCoords[i][0]
isPointInPolygon(point, polygonCoords) ==
  LET x == point[2]
      y == point[1]
      n == Len(polygonCoords)
      Intersect(i, j) ==
        LET xi == polygonCoords[i][2]
            yi == polygonCoords[i][1]
            xj == polygonCoords[j][2]
            yj == polygonCoords[j][1]
        IN  /\ (yi > y) # (yj > y)
            /\ IF yj - yi > 0
               THEN (x - xi) * (yj - yi) < (xj - xi) * (y - yi)
               ELSE (x - xi) * (yj - yi) > (xj - xi) * (y - yi)
      Crossings == { i \in 1..n : Intersect(i, IF i = 1 THEN n ELSE i - 1) }
  IN  Cardinality(Crossings) % 2 = 1

\* [start, two interior waypoints, end]
generateWaypoints(startLatLng, endLatLng) ==
  LET numWaypoints == 2
      W(i) == << startLatLng[1] + ((endLatLng[1] - startLatLng[1]) * i) \div (numWaypoints + 1),
                 startLatLng[2] + ((endLatLng[2] - startLatLng[2]) * i) \div (numWaypoints + 1) >>
  IN  <<startLatLng>> \o [i \in 1..numWaypoints |-> W(i)] \o <<endLatLng>>

(***************************************************************************)
(* Random sampling (mapUtils); each operator is the set of values the      *)
(* function can return over the draws of Math.random()                     *)
(***************************************************************************)
\* draws of Math.random(), in hundredths
RandVals == {0, 50, 99}

\* bounds of L.geoJSON(ccrGeoJsonPolygon), which reads the ring as <<lng, lat>>
ccrBounds ==
  LET lats == { ccrRing[i][2] : i \in 1..Len(ccrRing) }
      lngs == { ccrRing[i][1] : i \in 1..Len(ccrRing) }
      Least(S) == CHOOSE m \in S : \A x \in S : m <= x
      Most(S)  == CHOOSE m \in S : \A x \in S : m >= x
  IN  [south |-> Least(lats), north |-> Most(lats), west |-> Least(lngs), east |-> Most(lngs)]

\* the points one iteration of the do-while can draw
ccrSamplePoints ==
  { << (r1 * (ccrBounds.north - ccrBounds.south)) \div 100 + ccrBounds.south,
       (r2 * (ccrBounds.east - ccrBounds.west)) \div 100 + ccrBounds.west >> :
       r1 \in RandVals, r2 \in RandVals }

\* a sample that passes isPointInPolygon is returned; once attempts exceed
\* MAX_ATTEMPTS (every earlier sample failed) the default point is returned
getRandomPointInCcr ==
  { p \in ccrSamplePoints : isPointInPolygon(p, ccrRing) }
    \cup (IF \E p \in ccrSamplePoints : ~isPointInPolygon(p, ccrRing)
          THEN {defaultDarkStoreLocationSim} ELSE {})

\* disk sampling: w = radius * sqrt(u) with sqrt(u) in tenths, angle 2*pi*v
\* with v a quarter turn, so that cos and sin are -1, 0 or 1
hotspotDraws ==
  { <<su, c>> : su \in {0, 5}, c \in { <<1, 0>>, <<0, 1>>, <<0 - 1, 0>>, <<0, 0 - 1>> } }

\* radiusKm is given in tenths of a km
getRandomPointNearHotspot(center, radiusKm) ==
  LET Cand(d) == << center[1] + (radiusKm * 10 * d[1] * d[2][2]) \div LatUnitMeters,
                    center[2] + (radiusKm * 10 * d[1] * d[2][1]) \div LngUnitMeters >>
  IN  UNION { IF isPointInPolygon(Cand(d), ccrRing) THEN {Cand(d)} ELSE getRandomPointInCcr :
              d \in hotspotDraws }

(***************************************************************************)
(* Inputs of the section: stored demand profiles, clustered dark stores    *)
(***************************************************************************)
ccrSectors == [s \in {"Sector 17 (City Center)"} |-> <<307400, 767780>>]

UniformZone(mn, mx, st, en) ==
  [type |-> "uniform_ccr", minOrders |-> mn, maxOrders |-> mx, startTime |-> st, endTime |-> en,
   center |-> <<>>, radius |-> 0, sectors |-> <<>>, routePath |-> <<>>, buffer |-> 0]
HotspotZone(mn, mx, st, en, c, r) ==
  [UniformZone(mn, mx, st, en) EXCEPT !.type = "hotspot", !.center = c, !.radius = r]
SectorZone(mn, mx, st, en, names) ==
  [UniformZone(mn, mx, st, en) EXCEPT !.type = "sector", !.sectors = names]
RouteZone(mn, mx, st, en, path, b) ==
  [UniformZone(mn, mx, st, en) EXCEPT !.type = "route", !.routePath = path, !.buffer = b]

\* the stored profile lists the section is mounted with
ProfileLists ==
  { << [id |-> "custom_1",
        zones |-> << UniformZone(0, 12, 0, 23),
                     HotspotZone(6, 12, 0, 23, <<307400, 767780>>, 20),
                     SectorZone(12, 24, 0, 0, <<"Sector 17 (City Center)">>) >>] >> }

\* the clustered dark stores the section is mounted with (<<>>: none)
StoreLists ==
  { << >>,
    << <<307100, 767500>>, <<307600, 768100>> >> }

\* the draws of the offsets (Math.random() - 0.5) * 0.002 of the start positions
\* of n agents: neighbours in the list start on opposite sides of the default
\* point
OffsetDraws(n) ==
  { [i \in 1..n |-> IF (i + k) % 2 = 0 THEN <<8, 0>> ELSE <<0 - 8, 0>>] : k \in {0, 1} }

(***************************************************************************)
(* State                                                                   *)
(***************************************************************************)
VARIABLES
  simParams,             \* useState simParams
  simState,              \* useState simState
  customDemandProfiles,  \* AppContext
  clusteredDarkStores,   \* AppContext
  stepTrace,             \* history of the last tick: what the assigner and the fatigue model were given and returned
  opTrace,               \* history of the last handler call: which, whether it was refused, the state it found
  ai,                    \* the advisory-text requests: wall clock, isLoadingAi, the request in flight
  sampler,               \* a call of getRandomPointInCcr: its locals and its position
  opt,                   \* WorkforceOptimizationSection: the sweep of runOptimization
  profileForm,           \* ScenarioAnalysisSection: the demand profile form
  genCall                \* a call of generateOrdersLogic: its time argument and what it returned

vars == <<simParams, simState, customDemandProfiles, clusteredDarkStores, stepTrace,
          opTrace, ai, sampler, opt, profileForm, genCall>>

\* what the handlers of one section leave alone
simVars == <<simParams, simState, customDemandProfiles, clusteredDarkStores, stepTrace>>
auxVars == <<opTrace, ai, sampler, opt, profileForm, genCall>>

\* the values of the variables a specification does not use
NoOp == [op |-> "none", accepted |-> FALSE, resumed |-> FALSE,
         before |-> << >>, atPause |-> [has |-> FALSE, state |-> << >>],
         paramsBefore |-> << >>, input |-> << >>]
AiIdle == [now |-> 0, keyValid |-> FALSE, inFlight |-> "none", lastSent |-> << >>,
           ticked |-> FALSE, wasReset |-> FALSE]
FormIdle == [profileName |-> "", zones |-> << >>, modal |-> "none"]
SamplerIdle == [pc |-> "idle", ring |-> << >>, caller |-> "none", attempts |-> 0,
                point |-> << >>, result |-> << >>]
GenIdle == [pc |-> "idle", currentTime |-> 0, result |-> << >>]
OptIdle == [pc |-> "idle", params |-> << >>, numAgents |-> 0, runResults |-> << >>,
            rows |-> << >>, best |-> << >>, lastStats |-> << >>]

NewAgent(i, off) ==
  [id |-> i,
   lat |-> defaultDarkStoreLocationSim[1] + off[1],
   lng |-> defaultDarkStoreLocationSim[2] + off[2],
   status |-> "available",
   currentOrder |-> Null, routePath |-> << >>, legProgress |-> 0, currentLegIndex |-> 0,
   fatigueFactor |-> FatigueFull, consecutiveDeliveriesSinceRest |-> 0, timeContinuouslyActive |-> 0,
   totalDistance |-> 0, deliveriesCompleted |-> 0,
   timeSpentIdle |-> 0, timeSpentDelivering |-> 0, timeSpentAtStore |-> 0]

\* offs: the random start offset of each agent
initialSimState(numAgents, clustered, offs) ==
  [isRunning |-> FALSE,
   agents |-> [i \in 1..numAgents |-> NewAgent(i, offs[i])],
   orders |-> << >>,
   orderIdCounter |-> 0,
   currentSimulationTime |-> 0,
   currentDynamicTrafficFactor |-> 10,
   totalOrdersGenerated |-> 0, totalOrdersDelivered |-> 0, totalDeliveryTime |-> 0,
   totalAgentTravelDistance |-> 0,
   lastAiAnalysisRequestTime |-> 0, lastDynamicEventSuggestionTime |-> 0,
   darkStoreLocations |-> IF Len(clustered) > 0 THEN clustered ELSE <<defaultDarkStoreLocationSim>>]

\* the order is stamped with the end of the step it is placed in
NewOrder_lateStamp(counter, coords, currentTime) ==
  [id |-> counter, lat |-> coords[1], lng |-> coords[2],
   timePlaced |-> currentTime + MINUTES_PER_SIMULATION_STEP,
   status |-> "pending", assignedAgentId |-> Null,
   storeArrivalTime |-> Null, customerArrivalTime |-> Null, deliveryTime |-> Null]

\* the id does not depend on the counter
NewOrder_fixedId(counter, coords, currentTime) ==
  [id |-> 1, lat |-> coords[1], lng |-> coords[2],
   timePlaced |-> currentTime, status |-> "pending", assignedAgentId |-> Null,
   storeArrivalTime |-> Null, customerArrivalTime |-> Null, deliveryTime |-> Null]

NewOrder(counter, coords, currentTime) ==
  [id |-> counter, lat |-> coords[1], lng |-> coords[2],
   timePlaced |-> currentTime, status |-> "pending", assignedAgentId |-> Null,
   storeArrivalTime |-> Null, customerArrivalTime |-> Null, deliveryTime |-> Null]

EmptyTrace ==
  [agentsBeforeAssign |-> << >>, ordersBeforeAssign |-> << >>,
   agentsAfterAssign |-> << >>, ordersAfterAssign |-> << >>,
   agentsBeforeFatigue |-> << >>]

(***************************************************************************)
(* generateOrdersLogic: the set of results over the draws of Math.random() *)
(***************************************************************************)
\* the order coordinates a zone can draw
ZoneCoords(zone, darkStoreLocations) ==
  LET relevant == { darkStoreLocations[i] : i \in 1..Len(darkStoreLocations) }
  IN  IF zone.type = "uniform_ccr" THEN getRandomPointInCcr
      ELSE IF zone.type = "hotspot"
        THEN IF zone.center # << >> THEN getRandomPointNearHotspot(zone.center, zone.radius)
             ELSE UNION { getRandomPointNearHotspot(ds, zone.radius) : ds \in relevant }
      ELSE IF zone.type = "sector" /\ Len(zone.sectors) > 0
        THEN UNION { IF zone.sectors[k] \in DOMAIN ccrSectors
                     THEN getRandomPointNearHotspot(ccrSectors[zone.sectors[k]], 15)
                     ELSE UNION { getRandomPointNearHotspot(ds, 50) : ds \in relevant } :
                     k \in 1..Len(zone.sectors) }
      ELSE IF zone.type = "route" /\ Len(zone.routePath) > 1
        THEN UNION { getRandomPointNearHotspot(
                       << (zone.routePath[k][1] * (100 - t) + zone.routePath[k + 1][1] * t) \div 100,
                          (zone.routePath[k][2] * (100 - t) + zone.routePath[k + 1][2] * t) \div 100 >>,
                       zone.buffer) : k \in 1..(Len(zone.routePath) - 1), t \in RandVals }
      ELSE UNION { getRandomPointNearHotspot(ds, 50) : ds \in relevant }

\* one iteration of profile.zones.forEach on the accumulated result acc
ZoneStep(zone, currentTime, darkStoreLocations, acc) ==
  IF currentTime >= zone.startTime * 60 /\ currentTime <= zone.endTime * 60
  THEN UNION {
         LET ordersPerHour == zone.minOrders * 100 + r1 * (zone.maxOrders - zone.minOrders)
         IN  IF r2 * 60 < ordersPerHour * MINUTES_PER_SIMULATION_STEP
             THEN { [newOrders |-> Append(acc.newOrders,
                                          NewOrder(acc.updatedOrderIdCounter + 1, c, currentTime)),
                     updatedOrderIdCounter |-> acc.updatedOrderIdCounter + 1,
                     totalGeneratedIncrement |-> acc.totalGeneratedIncrement + 1] :
                    c \in ZoneCoords(zone, darkStoreLocations) }
             ELSE {acc} :
         r1 \in RandVals, r2 \in RandVals }
  ELSE {acc}

RECURSIVE ZonesFrom(_, _, _, _, _)
ZonesFrom(zones, k, currentTime, darkStoreLocations, acc) ==
  IF k > Len(zones) THEN {acc}
  ELSE UNION { ZonesFrom(zones, k + 1, currentTime, darkStoreLocations, a) :
               a \in ZoneStep(zones[k], currentTime, darkStoreLocations, acc) }

generateOrdersLogic(currentOrderIdCounter, profileId, currentTime, customProfiles, darkStoreLocations) ==
  LET none == [newOrders |-> << >>, updatedOrderIdCounter |-> currentOrderIdCounter,
               totalGeneratedIncrement |-> 0]
      primaryDarkStore == darkStoreLocations[1]
      found == { i \in 1..Len(customProfiles) : customProfiles[i].id = profileId }
  IN  IF profileId = "default_uniform_ccr" \/ profileId = "default_focused_ccr"
      THEN UNION {
             IF r < baseOrderRate
             THEN { [newOrders |-> << NewOrder(currentOrderIdCounter + 1, c, currentTime) >>,
                     updatedOrderIdCounter |-> currentOrderIdCounter + 1,
                     totalGeneratedIncrement |-> 1] :
                    c \in IF profileId = "default_uniform_ccr" THEN getRandomPointInCcr
                          ELSE getRandomPointNearHotspot(primaryDarkStore, focusedRadiusKm) }
             ELSE {none} :
             r \in RandVals }
      ELSE IF found = {} THEN {none}
      ELSE LET profile == customProfiles[CHOOSE i \in found : \A j \in found : i <= j]
           IN  ZonesFrom(profile.zones, 1, currentTime, darkStoreLocations, none)

(***************************************************************************)
(* assignOrdersToAgentsLogic                                               *)
(***************************************************************************)
AgentIndex(agentList, id) == CHOOSE i \in 1..Len(agentList) : agentList[i].id = id
OrderIndex(orderList, id) == CHOOSE i \in 1..Len(orderList) : orderList[i].id = id

\* agentSpeedKmph * fatigueFactor * trafficFactor, in thousandths of a km/h
effectiveSpeed(agentSpeedKmph, fatigueFactor, trafficFactor) ==
  agentSpeedKmph * fatigueFactor * trafficFactor

\* darkStoreLocations.forEach with dist < closestDsDist: index of the first closest
\* store from k on, best being the index found so far (0: none, closestDsDist = Infinity)
RECURSIVE ClosestStoreFrom(_, _, _, _)
ClosestStoreFrom(darkStoreLocations, k, order, best) ==
  IF k > Len(darkStoreLocations) THEN best
  ELSE LET dist == getDistanceKm(darkStoreLocations[k], <<order.lat, order.lng>>)
       IN  IF best = 0 \/ dist < getDistanceKm(darkStoreLocations[best], <<order.lat, order.lng>>)
           THEN ClosestStoreFrom(darkStoreLocations, k + 1, order, k)
           ELSE ClosestStoreFrom(darkStoreLocations, k + 1, order, best)

bestDarkStoreForOrder(order, darkStoreLocations) ==
  LET i == ClosestStoreFrom(darkStoreLocations, 1, order, 0)
  IN  IF i = 0 THEN defaultDarkStoreLocationSim ELSE darkStoreLocations[i]

\* eta = (distAgentToStore / effectiveSpeed) * 60 + timeAtStore
\*       + (distStoreToCustomer / effectiveSpeed) * 60,
\* kept as the pair (distance, speed): eta = dist / speed * 60 + timeAtStore
Eta(agent, order, storeCoords, agentSpeedKmph, trafficFactor) ==
  [dist |-> getDistanceKm(<<agent.lat, agent.lng>>, storeCoords)
            + getDistanceKm(storeCoords, <<order.lat, order.lng>>),
   speed |-> effectiveSpeed(agentSpeedKmph, agent.fatigueFactor, trafficFactor)]

\* e1 < e2 as estimated times
EtaLess(e1, e2) == e1.dist * e2.speed < e2.dist * e1.speed

\* eta <= minEta: the last agent of equal estimate wins
EtaBetter_orEqual(eta, minEta) == ~EtaLess(minEta, eta)

\* if (eta < minEta) { minEta = eta; bestAgent = agent }
EtaBetter(eta, minEta) == EtaLess(eta, minEta)

\* availableAgents.forEach from position j on; best is the id of bestAgent (Null: none)
RECURSIVE BestAgentFrom(_, _, _, _, _, _, _, _)
BestAgentFrom(availableAgents, j, modifiableAgents, order, storeCoords, agentSpeedKmph, trafficFactor, best) ==
  IF j > Len(availableAgents) THEN best
  ELSE LET agent == modifiableAgents[AgentIndex(modifiableAgents, availableAgents[j])]
           skip  == \/ agent.status # "available"
                    \/ effectiveSpeed(agentSpeedKmph, agent.fatigueFactor, trafficFactor) <= 100
           eta   == Eta(agent, order, storeCoords, agentSpeedKmph, trafficFactor)
           minAg == modifiableAgents[AgentIndex(modifiableAgents, best)]
           take  == \/ best = Null
                    \/ EtaBetter(eta, Eta(minAg, order, storeCoords, agentSpeedKmph, trafficFactor))
       IN  BestAgentFrom(availableAgents, j + 1, modifiableAgents, order, storeCoords,
                         agentSpeedKmph, trafficFactor,
                         IF ~skip /\ take THEN agent.id ELSE best)

\* the assignment leaves the agent without a route
AssignedRoute_empty(agent, order, storeForThisOrder) == << >>

\* the route of an assignment: agent -> store, then store -> customer without
\* the duplicate store waypoint
AssignedRoute(agent, order, storeForThisOrder) ==
  generateWaypoints(<<agent.lat, agent.lng>>, storeForThisOrder)
    \o Tail(generateWaypoints(storeForThisOrder, <<order.lat, order.lng>>))

Remove(seq, x) == SelectSeq(seq, LAMBDA y : y # x)

\* the order is not told which agent took it
AssignOne_noAgentId(st, orderId, agentSpeedKmph, trafficFactor, darkStoreLocations) ==
  LET Assign(order, storeForThisOrder, best) ==
        IF best = Null THEN st
        ELSE [agents |-> [st.agents EXCEPT ![AgentIndex(st.agents, best)] =
                            [@ EXCEPT !.routePath =
                                        AssignedRoute(st.agents[AgentIndex(st.agents, best)],
                                                      order, storeForThisOrder),
                                      !.status = "to_store",
                                      !.currentOrder = orderId,
                                      !.currentLegIndex = 0,
                                      !.legProgress = 0]],
              orders |-> [st.orders EXCEPT ![OrderIndex(st.orders, orderId)] =
                            [@ EXCEPT !.status = "assigned"]],
              available |-> Remove(st.available, best)]
      ViaStore(order, storeForThisOrder) ==
        Assign(order, storeForThisOrder,
               BestAgentFrom(st.available, 1, st.agents, order, storeForThisOrder,
                             agentSpeedKmph, trafficFactor, Null))
      ForOrder(order) == ViaStore(order, bestDarkStoreForOrder(order, darkStoreLocations))
  IN  ForOrder(st.orders[OrderIndex(st.orders, orderId)])

\* one iteration of pendingOrders.forEach; st = [agents, orders, available]
AssignOne(st, orderId, agentSpeedKmph, trafficFactor, darkStoreLocations) ==
  LET Assign(order, storeForThisOrder, best) ==
        IF best = Null THEN st
        ELSE [agents |-> [st.agents EXCEPT ![AgentIndex(st.agents, best)] =
                            [@ EXCEPT !.routePath =
                                        AssignedRoute(st.agents[AgentIndex(st.agents, best)],
                                                      order, storeForThisOrder),
                                      !.status = "to_store",
                                      !.currentOrder = orderId,
                                      !.currentLegIndex = 0,
                                      !.legProgress = 0]],
              orders |-> [st.orders EXCEPT ![OrderIndex(st.orders, orderId)] =
                            [@ EXCEPT !.status = "assigned", !.assignedAgentId = best]],
              available |-> Remove(st.available, best)]
      ViaStore(order, storeForThisOrder) ==
        Assign(order, storeForThisOrder,
               BestAgentFrom(st.available, 1, st.agents, order, storeForThisOrder,
                             agentSpeedKmph, trafficFactor, Null))
      ForOrder(order) == ViaStore(order, bestDarkStoreForOrder(order, darkStoreLocations))
  IN  ForOrder(st.orders[OrderIndex(st.orders, orderId)])

RECURSIVE AssignFrom(_, _, _, _, _, _)
AssignFrom(st, pendingOrders, k, agentSpeedKmph, trafficFactor, darkStoreLocations) ==
  IF k > Len(pendingOrders) THEN st
  ELSE AssignFrom(AssignOne(st, pendingOrders[k], agentSpeedKmph, trafficFactor, darkStoreLocations),
                  pendingOrders, k + 1, agentSpeedKmph, trafficFactor, darkStoreLocations)

\* the pending orders are served from the end of the list
assignOrdersToAgentsLogic_reversed(currentAgents, currentOrders, agentSpeedKmph, trafficFactor, darkStoreLocations) ==
  LET pend            == SelectSeq(currentOrders, LAMBDA o : o.status = "pending")
      avail           == SelectSeq(currentAgents, LAMBDA a : a.status = "available")
      pendingOrders   == [i \in 1..Len(pend) |-> pend[Len(pend) + 1 - i].id]
      availableAgents == [i \in 1..Len(avail) |-> avail[i].id]
      Result(r) == [updatedAgents |-> r.agents, updatedOrders |-> r.orders]
  IN  Result(AssignFrom([agents |-> currentAgents, orders |-> currentOrders,
                         available |-> availableAgents],
                        pendingOrders, 1, agentSpeedKmph, trafficFactor, darkStoreLocations))

\* the early return hands back the pending orders and the available agents
\* (the filtered lists) instead of the lists it was given
assignOrdersToAgentsLogic_returnsFiltered(currentAgents, currentOrders, agentSpeedKmph, trafficFactor, darkStoreLocations) ==
  LET pend            == SelectSeq(currentOrders, LAMBDA o : o.status = "pending")
      avail           == SelectSeq(currentAgents, LAMBDA a : a.status = "available")
      pendingOrders   == [i \in 1..Len(pend) |-> pend[i].id]
      availableAgents == [i \in 1..Len(avail) |-> avail[i].id]
      Result(r) == [updatedAgents |-> r.agents, updatedOrders |-> r.orders]
  IN  IF Len(pendingOrders) = 0 \/ Len(availableAgents) = 0
      THEN [updatedAgents |-> avail, updatedOrders |-> pend]
      ELSE Result(AssignFrom([agents |-> currentAgents, orders |-> currentOrders,
                              available |-> availableAgents],
                             pendingOrders, 1, agentSpeedKmph, trafficFactor, darkStoreLocations))

assignOrdersToAgentsLogic(currentAgents, currentOrders, agentSpeedKmph, trafficFactor, darkStoreLocations) ==
  LET pend            == SelectSeq(currentOrders, LAMBDA o : o.status = "pending")
      avail           == SelectSeq(currentAgents, LAMBDA a : a.status = "available")
      pendingOrders   == [i \in 1..Len(pend) |-> pend[i].id]
      availableAgents == [i \in 1..Len(avail) |-> avail[i].id]
  IN  IF Len(pendingOrders) = 0 \/ Len(availableAgents) = 0
      THEN [updatedAgents |-> currentAgents, updatedOrders |-> currentOrders]
      ELSE LET Result(r) == [updatedAgents |-> r.agents, updatedOrders |-> r.orders]
           IN  Result(AssignFrom([agents |-> currentAgents, orders |-> currentOrders,
                                  available |-> availableAgents],
                                 pendingOrders, 1, agentSpeedKmph, trafficFactor,
                                 darkStoreLocations))

(***************************************************************************)
(* updateAgentsMovementAndStatusLogic                                      *)
(***************************************************************************)
\* findIndex by id, 0 when there is no such order
FindOrder(orderList, id) ==
  IF \E i \in 1..Len(orderList) : orderList[i].id = id THEN OrderIndex(orderList, id) ELSE 0

\* the while loop over the legs of the route; currentLegIndex is 0-based, so
\* routePath[currentLegIndex] of the code is routePath[currentLegIndex + 1] here.
\* Returns the agent after the loop.
RECURSIVE WalkLegs(_, _)
WalkLegs(agent, remainingDistanceInStep) ==
  IF ~(remainingDistanceInStep > 0 /\ agent.currentLegIndex < Len(agent.routePath) - 1)
  THEN agent
  ELSE LET endPointOfLeg == agent.routePath[agent.currentLegIndex + 2]
           initial == agent.routePath[agent.currentLegIndex + 1]
           next == [agent EXCEPT !.currentLegIndex = @ + 1, !.legProgress = 0]
           Partly(newLegProgress) ==
             [agent EXCEPT
                !.legProgress = newLegProgress,
                !.lat = initial[1] + ((endPointOfLeg[1] - initial[1]) * newLegProgress) \div PScale,
                !.lng = initial[2] + ((endPointOfLeg[2] - initial[2]) * newLegProgress) \div PScale]
           Leg(legTotalDistanceKm, distanceToCoverOnThisLegKm) ==
             IF legTotalDistanceKm < 1
             THEN IF next.currentLegIndex >= Len(next.routePath) - 1 THEN next
                  ELSE WalkLegs(next, remainingDistanceInStep)
             ELSE IF remainingDistanceInStep >= distanceToCoverOnThisLegKm
             THEN WalkLegs([next EXCEPT !.lat = endPointOfLeg[1], !.lng = endPointOfLeg[2]],
                           remainingDistanceInStep - distanceToCoverOnThisLegKm)
             ELSE Partly(agent.legProgress
                           + (remainingDistanceInStep * PScale) \div legTotalDistanceKm)
           OnLeg(legTotalDistanceKm) ==
             Leg(legTotalDistanceKm, (legTotalDistanceKm * (PScale - agent.legProgress)) \div PScale)
       IN  OnLeg(getDistanceKm(<<agent.lat, agent.lng>>, endPointOfLeg))

\* routePath.find(p => darkStoreLocations.some(dsl => dsl equals p)); << >> when none
FindStoreOnRoute(routePath, darkStoreLocations) ==
  LET hits == { k \in 1..Len(routePath) :
                \E d \in 1..Len(darkStoreLocations) : darkStoreLocations[d] = routePath[k] }
  IN  IF hits = {} THEN << >>
      ELSE routePath[CHOOSE k \in hits : \A h \in hits : k <= h]

\* the pickup clears the route, as on delivery
AtStoreStep_clearsRoute(agent0, orders) ==
  LET agent == [agent0 EXCEPT !.timeSpentAtStore = @ + MINUTES_PER_SIMULATION_STEP,
                              !.legProgress = @ + MINUTES_PER_SIMULATION_STEP * PScale]
      oi    == FindOrder(orders, agent.currentOrder)
  IN  IF agent.legProgress >= HANDLING_TIME_AT_STORE * PScale /\ oi # 0
      THEN [agent |-> [agent EXCEPT !.status = "to_customer", !.legProgress = 0,
                                    !.routePath = << >>],
            orders |-> [orders EXCEPT ![oi].status = "picked_up"]]
      ELSE [agent |-> agent, orders |-> orders]

\* the pickup marks the order delivered
AtStoreStep_skipsPickup(agent0, orders) ==
  LET agent == [agent0 EXCEPT !.timeSpentAtStore = @ + MINUTES_PER_SIMULATION_STEP,
                              !.legProgress = @ + MINUTES_PER_SIMULATION_STEP * PScale]
      oi    == FindOrder(orders, agent.currentOrder)
  IN  IF agent.legProgress >= HANDLING_TIME_AT_STORE * PScale /\ oi # 0
      THEN [agent |-> [agent EXCEPT !.status = "to_customer", !.legProgress = 0],
            orders |-> [orders EXCEPT ![oi].status = "delivered"]]
      ELSE [agent |-> agent, orders |-> orders]

\* the at_store branch of the forEach body; r = [agent, orders, delivered, increment]
AtStoreStep(agent0, orders) ==
  LET agent == [agent0 EXCEPT !.timeSpentAtStore = @ + MINUTES_PER_SIMULATION_STEP,
                              !.legProgress = @ + MINUTES_PER_SIMULATION_STEP * PScale]
      oi    == FindOrder(orders, agent.currentOrder)
  IN  IF agent.legProgress >= HANDLING_TIME_AT_STORE * PScale
      THEN IF oi # 0
           THEN [agent |-> [agent EXCEPT !.status = "to_customer", !.legProgress = 0],
                 orders |-> [orders EXCEPT ![oi].status = "picked_up"]]
           ELSE [agent |-> [agent EXCEPT !.status = "available", !.currentOrder = Null,
                                         !.routePath = << >>],
                 orders |-> orders]
      ELSE [agent |-> agent, orders |-> orders]

\* the arrival handling after the leg loop
\* result: [agent, orders, delivered, increment, active]
ArrivalStep(agent, orders, currentTime, darkStoreLocations) ==
  LET oi   == FindOrder(orders, agent.currentOrder)
      same == [agent |-> agent, orders |-> orders, delivered |-> << >>, increment |-> 0,
               active |-> TRUE]
  IN  IF ~(agent.currentLegIndex >= Len(agent.routePath) - 1) THEN same
      ELSE IF oi = 0 /\ agent.currentOrder # Null
      THEN [same EXCEPT !.agent = [agent EXCEPT !.status = "available", !.currentOrder = Null,
                                                !.routePath = << >>],
                        !.active = FALSE]
      ELSE IF oi = 0 THEN same
      ELSE IF agent.status = "to_store"
      THEN LET storeCoords == FindStoreOnRoute(agent.routePath, darkStoreLocations)
               snapped == IF storeCoords # << >>
                          THEN [agent EXCEPT !.lat = storeCoords[1], !.lng = storeCoords[2]]
                          ELSE agent
           IN  [same EXCEPT !.agent = [snapped EXCEPT !.status = "at_store", !.legProgress = 0],
                            !.orders = [orders EXCEPT ![oi].storeArrivalTime = currentTime]]
      ELSE IF agent.status = "to_customer"
      THEN LET order == [orders[oi] EXCEPT !.status = "delivered",
                                           !.customerArrivalTime = currentTime,
                                           !.deliveryTime = currentTime - orders[oi].timePlaced]
           IN  [agent |-> [agent EXCEPT !.status = "available",
                                        !.lat = order.lat, !.lng = order.lng,
                                        !.deliveriesCompleted = @ + 1,
                                        !.consecutiveDeliveriesSinceRest = @ + 1,
                                        !.currentOrder = Null, !.routePath = << >>],
                orders |-> [orders EXCEPT ![oi] = order],
                delivered |-> <<order>>,
                increment |-> order.deliveryTime,
                active |-> FALSE]
      ELSE same

\* the body of updatedAgents.forEach for one agent
\* result: [agent, orders, delivered, increment]
MoveAgent(agent0, orders, agentSpeedKmph, trafficFactor, currentTime, darkStoreLocations) ==
  LET none(a, os) == [agent |-> a, orders |-> os, delivered |-> << >>, increment |-> 0]
      \* if (!agentActiveThisStep) agent.timeContinuouslyActive = 0
      Arrived(r) ==
        [agent |-> IF r.active THEN r.agent ELSE [r.agent EXCEPT !.timeContinuouslyActive = 0],
         orders |-> r.orders, delivered |-> r.delivered, increment |-> r.increment]
      Travel(agent2, distanceCoveredThisStep) ==
        Arrived(ArrivalStep(WalkLegs([agent2 EXCEPT !.totalDistance = @ + distanceCoveredThisStep],
                                     distanceCoveredThisStep),
                            orders, currentTime, darkStoreLocations))
      Moving(agent2, speed) ==
        IF speed <= 10 THEN none(agent2, orders)
        ELSE Travel(agent2, (speed * MINUTES_PER_SIMULATION_STEP) \div 60)
      Handled(r) == none(r.agent, r.orders)
      Active(agent1) ==
        IF agent1.status = "at_store" THEN Handled(AtStoreStep(agent1, orders))
        ELSE IF Len(agent1.routePath) = 0 \/ agent1.currentLegIndex >= Len(agent1.routePath) - 1
        THEN none(agent1, orders)
        ELSE Moving([agent1 EXCEPT !.timeSpentDelivering = @ + MINUTES_PER_SIMULATION_STEP],
                    effectiveSpeed(agentSpeedKmph, agent1.fatigueFactor, trafficFactor))
  IN  IF agent0.status = "available"
      THEN none([agent0 EXCEPT !.timeSpentIdle = @ + MINUTES_PER_SIMULATION_STEP], orders)
      ELSE Active([agent0 EXCEPT !.timeContinuouslyActive = @ + MINUTES_PER_SIMULATION_STEP])

RECURSIVE MoveFrom(_, _, _, _, _, _)
MoveFrom(st, k, agentSpeedKmph, trafficFactor, currentTime, darkStoreLocations) ==
  IF k > Len(st.updatedAgents) THEN st
  ELSE LET Merged(r) ==
             MoveFrom([updatedAgents |-> [st.updatedAgents EXCEPT ![k] = r.agent],
                       updatedOrders |-> r.orders,
                       deliveredOrdersThisStep |-> st.deliveredOrdersThisStep \o r.delivered,
                       totalDeliveryTimeIncrement |-> st.totalDeliveryTimeIncrement + r.increment],
                      k + 1, agentSpeedKmph, trafficFactor, currentTime, darkStoreLocations)
       IN  Merged(MoveAgent(st.updatedAgents[k], st.updatedOrders, agentSpeedKmph, trafficFactor,
                            currentTime, darkStoreLocations))

updateAgentsMovementAndStatusLogic(currentAgents, currentOrders, agentSpeedKmph, trafficFactor, currentTime, darkStoreLocations) ==
  MoveFrom([updatedAgents |-> currentAgents, updatedOrders |-> currentOrders,
            deliveredOrdersThisStep |-> << >>, totalDeliveryTimeIncrement |-> 0],
           1, agentSpeedKmph, trafficFactor, currentTime, darkStoreLocations)

(***************************************************************************)
(* updateAgentFatigueLogic                                                 *)
(***************************************************************************)
\* the reduction is not held at the floor
FatigueAgent_noFloor(agent) ==
  IF agent.status = "available"
  THEN IF agent.fatigueFactor < FatigueFull /\ agent.timeSpentIdle >= FATIGUE_RECOVERY_IDLE_TIME_MIN
       THEN [agent EXCEPT !.fatigueFactor = Min(FatigueFull, @ + FATIGUE_FACTOR_RECOVERY_RATE),
                          !.timeContinuouslyActive = 0,
                          !.consecutiveDeliveriesSinceRest = 0]
       ELSE agent
  ELSE IF /\ agent.fatigueFactor > FatigueFloor
          /\ \/ agent.consecutiveDeliveriesSinceRest >= FATIGUE_THRESHOLD_DELIVERIES
             \/ agent.timeContinuouslyActive >= FATIGUE_THRESHOLD_TIME_MIN
       THEN [agent EXCEPT !.fatigueFactor = @ - FATIGUE_FACTOR_REDUCTION,
                          !.timeSpentIdle = 0,
                          !.consecutiveDeliveriesSinceRest = 0,
                          !.timeContinuouslyActive = 0]
       ELSE [agent EXCEPT !.timeSpentIdle = 0]

\* a busy agent tires in every tick, whatever its counters
FatigueAgent_noThreshold(agent) ==
  IF agent.status = "available"
  THEN IF agent.fatigueFactor < FatigueFull /\ agent.timeSpentIdle >= FATIGUE_RECOVERY_IDLE_TIME_MIN
       THEN [agent EXCEPT !.fatigueFactor = Min(FatigueFull, @ + FATIGUE_FACTOR_RECOVERY_RATE),
                          !.timeContinuouslyActive = 0,
                          !.consecutiveDeliveriesSinceRest = 0]
       ELSE agent
  ELSE IF agent.fatigueFactor > FatigueFloor
       THEN [agent EXCEPT !.fatigueFactor = Max(FatigueFloor, @ - FATIGUE_FACTOR_REDUCTION),
                          !.timeSpentIdle = 0,
                          !.consecutiveDeliveriesSinceRest = 0,
                          !.timeContinuouslyActive = 0]
       ELSE [agent EXCEPT !.timeSpentIdle = 0]

FatigueAgent(agent) ==
  IF agent.status = "available"
  THEN IF agent.fatigueFactor < FatigueFull /\ agent.timeSpentIdle >= FATIGUE_RECOVERY_IDLE_TIME_MIN
       THEN LET newFatigueFactor == Min(FatigueFull, agent.fatigueFactor + FATIGUE_FACTOR_RECOVERY_RATE)
            IN  IF newFatigueFactor > agent.fatigueFactor
                THEN [agent EXCEPT !.fatigueFactor = newFatigueFactor,
                                   !.timeContinuouslyActive = 0,
                                   !.consecutiveDeliveriesSinceRest = 0]
                ELSE agent
       ELSE agent
  ELSE LET busy == [agent EXCEPT !.timeSpentIdle = 0]
       IN  IF /\ busy.fatigueFactor > FatigueFloor
              /\ \/ busy.consecutiveDeliveriesSinceRest >= FATIGUE_THRESHOLD_DELIVERIES
                 \/ busy.timeContinuouslyActive >= FATIGUE_THRESHOLD_TIME_MIN
           THEN [busy EXCEPT !.fatigueFactor = Max(FatigueFloor, @ - FATIGUE_FACTOR_REDUCTION),
                             !.consecutiveDeliveriesSinceRest = 0,
                             !.timeContinuouslyActive = 0]
           ELSE busy

updateAgentFatigueLogic(currentAgents) ==
  [i \in 1..Len(currentAgents) |-> FatigueAgent(currentAgents[i])]

(***************************************************************************)
(* The section: initial state and handlers                                 *)
(***************************************************************************)
SpeedVals == {25}
TrafficVals == {10}
ProfileIds ==
  {"default_uniform_ccr", "default_focused_ccr"}
    \cup UNION { { pl[i].id : i \in 1..Len(pl) } : pl \in ProfileLists }

Init ==
  /\ simParams = [numAgents |-> MaxAgents, agentSpeedKmph |-> 25,
                  orderGenProfileId |-> "default_uniform_ccr",
                  baseTrafficFactor |-> 10, enableDynamicTraffic |-> FALSE]
  /\ customDemandProfiles \in ProfileLists
  /\ clusteredDarkStores \in StoreLists
  /\ \E offs \in OffsetDraws(MaxAgents) :
       simState = initialSimState(MaxAgents, clusteredDarkStores, offs)
  /\ stepTrace = EmptyTrace
  /\ profileForm = FormIdle /\ genCall = GenIdle /\ opTrace = NoOp /\ ai = AiIdle /\ sampler = SamplerIdle /\ opt = OptIdle

\* 0.6 + Math.random() * 0.8, in tenths
DynamicTrafficDraws == { 6 + (r * 8) \div 100 : r \in RandVals }

RECURSIVE SumDistance(_, _, _)
SumDistance(delivered, k, from) ==
  IF k > Len(delivered) THEN 0
  ELSE getDistanceKm(from, <<delivered[k].lat, delivered[k].lng>>) + SumDistance(delivered, k + 1, from)

\* the delivered counter grows by the length of the order list
StepResult_countsAll(prevState, dynTraffic, gen, moved) ==
  [prevState EXCEPT
     !.currentSimulationTime = @ + MINUTES_PER_SIMULATION_STEP,
     !.currentDynamicTrafficFactor = dynTraffic,
     !.orders = moved.updatedOrders,
     !.orderIdCounter = gen.updatedOrderIdCounter,
     !.totalOrdersGenerated = @ + gen.totalGeneratedIncrement,
     !.agents = updateAgentFatigueLogic(moved.updatedAgents),
     !.totalOrdersDelivered = @ + Len(moved.updatedOrders)]

\* the state runSimulationStep returns, given the traffic factor drawn (or
\* kept), the result gen of generateOrdersLogic and the result moved of
\* updateAgentsMovementAndStatusLogic
\* the generated counter grows by one in a tick that generates orders
StepResult_countsTicks(prevState, dynTraffic, gen, moved) ==
  [prevState EXCEPT
     !.currentSimulationTime = @ + MINUTES_PER_SIMULATION_STEP,
     !.currentDynamicTrafficFactor = dynTraffic,
     !.orders = moved.updatedOrders,
     !.orderIdCounter = gen.updatedOrderIdCounter,
     !.totalOrdersGenerated = @ + (IF Len(gen.newOrders) > 0 THEN 1 ELSE 0),
     !.agents = updateAgentFatigueLogic(moved.updatedAgents),
     !.totalOrdersDelivered = @ + Len(moved.deliveredOrdersThisStep),
     !.totalDeliveryTime = @ + moved.totalDeliveryTimeIncrement,
     !.totalAgentTravelDistance =
        @ + SumDistance(moved.deliveredOrdersThisStep, 1, prevState.darkStoreLocations[1])]

StepResult(prevState, dynTraffic, gen, moved) ==
  [prevState EXCEPT
     !.currentSimulationTime = @ + MINUTES_PER_SIMULATION_STEP,
     !.currentDynamicTrafficFactor = dynTraffic,
     !.orders = moved.updatedOrders,
     !.orderIdCounter = gen.updatedOrderIdCounter,
     !.totalOrdersGenerated = @ + gen.totalGeneratedIncrement,
     !.agents = updateAgentFatigueLogic(moved.updatedAgents),
     !.totalOrdersDelivered = @ + Len(moved.deliveredOrdersThisStep),
     !.totalDeliveryTime = @ + moved.totalDeliveryTimeIncrement,
     !.totalAgentTravelDistance =
        @ + SumDistance(moved.deliveredOrdersThisStep, 1, prevState.darkStoreLocations[1])]

\* the traffic factor the step uses
currentTrafficFactor(dynTraffic) ==
  IF simParams.enableDynamicTraffic THEN dynTraffic ELSE simParams.baseTrafficFactor

\* the step is refreshing the dynamic traffic factor at currentTime
TrafficRefresh(currentTime) ==
  /\ simParams.enableDynamicTraffic
  /\ (currentTime \div MINUTES_PER_SIMULATION_STEP) % DYNAMIC_TRAFFIC_UPDATE_INTERVAL_STEPS = 0

\* steps 2 to 5 of the state updater: the orders gen are appended, then the
\* assigner, the movement and the fatigue model run
Tick(currentTime, dynTraffic, gen) ==
  \E ordersBeforeAssign \in { simState.orders \o gen.newOrders } :
  \E assigned \in { assignOrdersToAgentsLogic(
                      simState.agents, ordersBeforeAssign,
                      simParams.agentSpeedKmph, currentTrafficFactor(dynTraffic),
                      simState.darkStoreLocations) } :
  \E moved \in { updateAgentsMovementAndStatusLogic(
                   assigned.updatedAgents, assigned.updatedOrders,
                   simParams.agentSpeedKmph, currentTrafficFactor(dynTraffic),
                   currentTime, simState.darkStoreLocations) } :
    /\ simState' = StepResult(simState, dynTraffic, gen, moved)
    /\ stepTrace' = [agentsBeforeAssign |-> simState.agents,
                     ordersBeforeAssign |-> ordersBeforeAssign,
                     agentsAfterAssign |-> assigned.updatedAgents,
                     ordersAfterAssign |-> assigned.updatedOrders,
                     agentsBeforeFatigue |-> moved.updatedAgents]

runSimulationStep ==
  /\ simState.isRunning
  /\ simState.currentSimulationTime < MaxTicks * MINUTES_PER_SIMULATION_STEP
  /\ \E currentTime \in {simState.currentSimulationTime + MINUTES_PER_SIMULATION_STEP} :
     \E dynTraffic \in (IF TrafficRefresh(currentTime) THEN DynamicTrafficDraws
                        ELSE {simState.currentDynamicTrafficFactor}) :
     \E gen \in generateOrdersLogic(simState.orderIdCounter, simParams.orderGenProfileId,
                                    currentTime, customDemandProfiles,
                                    simState.darkStoreLocations) :
       /\ Len(simState.orders) + Len(gen.newOrders) <= MaxOrders
       /\ Tick(currentTime, dynTraffic, gen)
  /\ UNCHANGED <<simParams, customDemandProfiles, clusteredDarkStores>>
  /\ UNCHANGED auxVars

startSim ==
  /\ ~simState.isRunning
  /\ simState' = [simState EXCEPT !.isRunning = TRUE]
  /\ UNCHANGED <<simParams, customDemandProfiles, clusteredDarkStores, stepTrace>>
  /\ UNCHANGED auxVars

pauseSim ==
  /\ simState.isRunning
  /\ simState' = [simState EXCEPT !.isRunning = FALSE]
  /\ UNCHANGED <<simParams, customDemandProfiles, clusteredDarkStores, stepTrace>>
  /\ UNCHANGED auxVars

resetSim ==
  /\ \E offs \in OffsetDraws(simParams.numAgents) :
       simState' = initialSimState(simParams.numAgents, clusteredDarkStores, offs)
  /\ stepTrace' = EmptyTrace
  /\ UNCHANGED <<simParams, customDemandProfiles, clusteredDarkStores>>
  /\ UNCHANGED auxVars

\* handleParamChange and the effect that re-initialises simState when
\* simParams.numAgents has changed and the simulation is not running
handleParamChange ==
  /\ ~simState.isRunning
  /\ \E next \in { [simParams EXCEPT !.numAgents = v] : v \in 1..MaxAgents }
            \cup { [simParams EXCEPT !.agentSpeedKmph = v] : v \in SpeedVals }
            \cup { [simParams EXCEPT !.orderGenProfileId = v] : v \in ProfileIds }
            \cup { [simParams EXCEPT !.baseTrafficFactor = v] : v \in TrafficVals } :
       /\ simParams' = next
       /\ IF next.numAgents # simParams.numAgents
          THEN /\ \E offs \in OffsetDraws(next.numAgents) :
                    simState' = initialSimState(next.numAgents, clusteredDarkStores, offs)
               /\ stepTrace' = EmptyTrace
          ELSE UNCHANGED <<simState, stepTrace>>
  /\ UNCHANGED <<customDemandProfiles, clusteredDarkStores>>
  /\ UNCHANGED auxVars

Next ==
  \/ runSimulationStep
  \/ startSim
  \/ pauseSim
  \/ resetSim
  \/ handleParamChange

Spec == Init /\ [][Next]_vars

(***************************************************************************)
(* The fatigue model over its inputs: one agent, idle or busy with an      *)
(* order it has picked up, at any fatigue level and delivery count, ticked *)
(* without new orders                                                      *)
(***************************************************************************)
\* the values fatigueFactor takes: 1.0 less steps of 0.15 above the floor of
\* 0.5, plus steps of 0.25 below 1.0
FatigueLevels == { FatigueFloor + 5 * k : k \in 0..((FatigueFull - FatigueFloor) \div 5) }
DeliveryCounts == { 0, FATIGUE_THRESHOLD_DELIVERIES - 1, FATIGUE_THRESHOLD_DELIVERIES }

\* the order of the busy agent, placed and picked up at the default store
FatigueOrder ==
  [NewOrder(1, defaultDarkStoreLocationSim, MINUTES_PER_SIMULATION_STEP) EXCEPT
     !.status = "picked_up", !.assignedAgentId = 1,
     !.storeArrivalTime = MINUTES_PER_SIMULATION_STEP]

\* the agent with the order picked up, at the end of its route
BusyAgent(fresh) ==
  [fresh EXCEPT
     !.status = "to_customer", !.currentOrder = 1,
     !.routePath = AssignedRoute(fresh, FatigueOrder, defaultDarkStoreLocationSim),
     !.currentLegIndex = Len(AssignedRoute(fresh, FatigueOrder, defaultDarkStoreLocationSim)) - 1,
     !.lat = defaultDarkStoreLocationSim[1], !.lng = defaultDarkStoreLocationSim[2],
     !.timeContinuouslyActive = 2 * MINUTES_PER_SIMULATION_STEP,
     !.totalDistance = (effectiveSpeed(25, fresh.fatigueFactor, 10) * MINUTES_PER_SIMULATION_STEP) \div 60,
     !.timeSpentDelivering = MINUTES_PER_SIMULATION_STEP,
     !.timeSpentAtStore = MINUTES_PER_SIMULATION_STEP]

FatigueInit ==
  /\ simParams = [numAgents |-> 1, agentSpeedKmph |-> 25,
                  orderGenProfileId |-> "default_uniform_ccr",
                  baseTrafficFactor |-> 10, enableDynamicTraffic |-> FALSE]
  /\ customDemandProfiles = << >>
  /\ clusteredDarkStores = << >>
  /\ stepTrace = EmptyTrace
  /\ profileForm = FormIdle /\ genCall = GenIdle /\ opTrace = NoOp /\ ai = AiIdle /\ sampler = SamplerIdle /\ opt = OptIdle
  /\ \E level \in FatigueLevels, count \in DeliveryCounts, busy \in BOOLEAN :
     \E fresh \in { [NewAgent(1, <<8, 0>>) EXCEPT !.fatigueFactor = level,
                                                   !.consecutiveDeliveriesSinceRest = count] } :
       simState =
         IF busy
         THEN [initialSimState(1, clusteredDarkStores, << <<8, 0>> >>) EXCEPT
                 !.isRunning = TRUE,
                 !.agents = << BusyAgent(fresh) >>,
                 !.orders = << FatigueOrder >>,
                 !.orderIdCounter = 1,
                 !.totalOrdersGenerated = 1,
                 !.currentSimulationTime = 2 * MINUTES_PER_SIMULATION_STEP]
         ELSE [initialSimState(1, clusteredDarkStores, << <<8, 0>> >>) EXCEPT
                 !.isRunning = TRUE,
                 !.agents = << fresh >>]

\* runSimulationStep in a tick in which no order is placed
FatigueTick ==
  /\ simState.isRunning
  /\ simState.currentSimulationTime < MaxFatigueTicks * MINUTES_PER_SIMULATION_STEP
  /\ \E currentTime \in {simState.currentSimulationTime + MINUTES_PER_SIMULATION_STEP} :
     \E gen \in generateOrdersLogic(simState.orderIdCounter, simParams.orderGenProfileId,
                                    currentTime, customDemandProfiles,
                                    simState.darkStoreLocations) :
       /\ gen.newOrders = << >>
       /\ Tick(currentTime, simState.currentDynamicTrafficFactor, gen)
  /\ UNCHANGED <<simParams, customDemandProfiles, clusteredDarkStores>>
  /\ UNCHANGED auxVars

FatigueNext == FatigueTick

FatigueSpec == FatigueInit /\ [][FatigueNext]_vars

(***************************************************************************)
(* The handlers with their refusals: every call of a handler is a step,    *)
(* also one that returns early, and opTrace records the call               *)
(***************************************************************************)
CtlSpeedVals == {25, 40}

\* the record of a call: before is the simState the call found, atPause the
\* simState the last accepted pause found, resumed whether the call is an
\* accepted start that follows that pause with no accepted call in between
Op(name, accepted, resumed, atPause, input) ==
  [op |-> name, accepted |-> accepted, resumed |-> resumed,
   before |-> simState, atPause |-> atPause, paramsBefore |-> simParams, input |-> input]

\* the pause a call that changed nothing leaves on record
KeptPause == [has |-> opTrace.op # "none" /\ opTrace.atPause.has,
              state |-> IF opTrace.op # "none" /\ opTrace.atPause.has
                        THEN opTrace.atPause.state ELSE << >>]
NoPause == [has |-> FALSE, state |-> << >>]

\* the interval callback runs the step although the simulation is not running
tickCallback_noGuard ==
  /\ simState.currentSimulationTime < MaxCtlTicks * MINUTES_PER_SIMULATION_STEP
  /\ \E currentTime \in {simState.currentSimulationTime + MINUTES_PER_SIMULATION_STEP} :
     \E dynTraffic \in (IF TrafficRefresh(currentTime) THEN DynamicTrafficDraws
                        ELSE {simState.currentDynamicTrafficFactor}) :
     \E gen \in generateOrdersLogic(simState.orderIdCounter, simParams.orderGenProfileId,
                                    currentTime, customDemandProfiles,
                                    simState.darkStoreLocations) :
       /\ Len(simState.orders) + Len(gen.newOrders) <= MaxOrders
       /\ Tick(currentTime, dynTraffic, gen)
  /\ opTrace' = Op("tick", simState.isRunning, FALSE,
                   IF simState.isRunning THEN NoPause ELSE KeptPause, << >>)
  /\ UNCHANGED <<simParams, customDemandProfiles, clusteredDarkStores, ai, sampler, opt, profileForm, genCall>>

\* runSimulationStep as the interval callback: its updater returns prevState
\* when the simulation is not running; the run is cut at maxTicks ticks and
\* maxOrders orders
TickBody(maxTicks, maxOrders) ==
  IF ~simState.isRunning
  THEN UNCHANGED <<simState, stepTrace>>
  ELSE /\ simState.currentSimulationTime < maxTicks * MINUTES_PER_SIMULATION_STEP
       /\ \E currentTime \in {simState.currentSimulationTime + MINUTES_PER_SIMULATION_STEP} :
          \E dynTraffic \in (IF TrafficRefresh(currentTime) THEN DynamicTrafficDraws
                             ELSE {simState.currentDynamicTrafficFactor}) :
          \E gen \in generateOrdersLogic(simState.orderIdCounter, simParams.orderGenProfileId,
                                         currentTime, customDemandProfiles,
                                         simState.darkStoreLocations) :
            /\ Len(simState.orders) + Len(gen.newOrders) <= maxOrders
            /\ Tick(currentTime, dynTraffic, gen)

TickCall(maxTicks, maxOrders) ==
  /\ TickBody(maxTicks, maxOrders)
  /\ opTrace' = Op("tick", simState.isRunning, FALSE,
                   IF simState.isRunning THEN NoPause ELSE KeptPause, << >>)
  /\ UNCHANGED <<simParams, customDemandProfiles, clusteredDarkStores, ai, sampler, opt, profileForm, genCall>>

tickCallback == TickCall(MaxCtlTicks, MaxOrders)

startSimClick ==
  /\ simState' = IF simState.isRunning THEN simState ELSE [simState EXCEPT !.isRunning = TRUE]
  /\ opTrace' = Op("start", ~simState.isRunning, ~simState.isRunning /\ KeptPause.has,
                   KeptPause, << >>)
  /\ UNCHANGED <<simParams, customDemandProfiles, clusteredDarkStores, stepTrace, ai, sampler, opt, profileForm, genCall>>

\* simulationIntervalRef is set exactly while the simulation runs
pauseSimClick ==
  /\ simState' = IF ~simState.isRunning THEN simState ELSE [simState EXCEPT !.isRunning = FALSE]
  /\ opTrace' = Op("pause", simState.isRunning, FALSE,
                   IF simState.isRunning THEN [has |-> TRUE, state |-> simState] ELSE KeptPause,
                   << >>)
  /\ UNCHANGED <<simParams, customDemandProfiles, clusteredDarkStores, stepTrace, ai, sampler, opt, profileForm, genCall>>

resetSimClick ==
  /\ \E offs \in OffsetDraws(simParams.numAgents) :
       simState' = initialSimState(simParams.numAgents, clusteredDarkStores, offs)
  /\ stepTrace' = EmptyTrace
  /\ opTrace' = Op("reset", TRUE, FALSE, NoPause, << >>)
  /\ UNCHANGED <<simParams, customDemandProfiles, clusteredDarkStores, ai, sampler, opt, profileForm, genCall>>

\* the setting is taken although the simulation is running
paramChange_whileRunning ==
  /\ \E param \in {"numAgents", "agentSpeedKmph", "orderGenProfileId"} :
     \E next \in (CASE param = "numAgents" -> { [simParams EXCEPT !.numAgents = v] : v \in 1..MaxAgents }
                    [] param = "agentSpeedKmph" -> { [simParams EXCEPT !.agentSpeedKmph = v] : v \in CtlSpeedVals }
                    [] OTHER -> { [simParams EXCEPT !.orderGenProfileId = v] : v \in ProfileIds }) :
       /\ next # simParams
       /\ simParams' = next
       /\ IF ~simState.isRunning /\ next.numAgents # simParams.numAgents
          THEN /\ \E offs \in OffsetDraws(next.numAgents) :
                    simState' = initialSimState(next.numAgents, clusteredDarkStores, offs)
               /\ stepTrace' = EmptyTrace
          ELSE UNCHANGED <<simState, stepTrace>>
       /\ opTrace' = Op("param", TRUE, FALSE,
                        IF ~simState.isRunning /\ next.numAgents # simParams.numAgents
                        THEN NoPause ELSE KeptPause, param)
  /\ UNCHANGED <<customDemandProfiles, clusteredDarkStores, ai, sampler, opt, profileForm, genCall>>

\* handleParamChange for a new value of a setting, followed by the effect
\* whose dependencies are simParams.numAgents and initialSimState
paramChange ==
  /\ \E param \in {"numAgents", "agentSpeedKmph", "orderGenProfileId"} :
     \E next \in (CASE param = "numAgents" -> { [simParams EXCEPT !.numAgents = v] : v \in 1..MaxAgents }
                    [] param = "agentSpeedKmph" -> { [simParams EXCEPT !.agentSpeedKmph = v] : v \in CtlSpeedVals }
                    [] OTHER -> { [simParams EXCEPT !.orderGenProfileId = v] : v \in ProfileIds }) :
       /\ next # simParams
       /\ simParams' = IF simState.isRunning THEN simParams ELSE next
       /\ IF ~simState.isRunning /\ next.numAgents # simParams.numAgents
          THEN /\ \E offs \in OffsetDraws(next.numAgents) :
                    simState' = initialSimState(next.numAgents, clusteredDarkStores, offs)
               /\ stepTrace' = EmptyTrace
          ELSE UNCHANGED <<simState, stepTrace>>
       /\ opTrace' = Op("param", ~simState.isRunning, FALSE,
                        IF ~simState.isRunning /\ next.numAgents # simParams.numAgents
                        THEN NoPause ELSE KeptPause, param)
  /\ UNCHANGED <<customDemandProfiles, clusteredDarkStores, ai, sampler, opt, profileForm, genCall>>

ControlNext ==
  \/ tickCallback
  \/ startSimClick
  \/ pauseSimClick
  \/ resetSimClick
  \/ paramChange

\* the section as it is mounted: the default settings, one stored profile, no
\* clustered dark stores
ControlInit ==
  /\ simParams = [numAgents |-> MaxAgents, agentSpeedKmph |-> 25,
                  orderGenProfileId |-> "default_uniform_ccr",
                  baseTrafficFactor |-> 10, enableDynamicTraffic |-> FALSE]
  /\ customDemandProfiles \in ProfileLists
  /\ clusteredDarkStores = << >>
  /\ simState = initialSimState(MaxAgents, clusteredDarkStores,
                                [i \in 1..MaxAgents |-> IF i % 2 = 0 THEN <<8, 0>> ELSE <<0 - 8, 0>>])
  /\ stepTrace = EmptyTrace
  /\ profileForm = FormIdle /\ genCall = GenIdle /\ opTrace = NoOp /\ ai = AiIdle /\ sampler = SamplerIdle /\ opt = OptIdle

ControlSpec == ControlInit /\ [][ControlNext]_vars

(***************************************************************************)
(* The advisory-text requests of the section: handleAiAnalysisRequest and  *)
(* handleSuggestDynamicEvent, their responses, and the wall clock.  Wall   *)
(* time is counted in units of 30 s.                                       *)
(***************************************************************************)
\* Date.now() when the section is mounted: later than any cooldown after 0
NowStart == dynamicEventCooldownMs

Cooldown(kind) == IF kind = "analysis" THEN aiAnalysisCooldownMs ELSE dynamicEventCooldownMs

\* simState.lastAiAnalysisRequestTime / lastDynamicEventSuggestionTime
LastRequestTime(st, kind) ==
  IF kind = "analysis" THEN st.lastAiAnalysisRequestTime ELSE st.lastDynamicEventSuggestionTime

\* the interval callback runs no step while isLoadingAi
aiTick_gated ==
  /\ simState.isRunning
  /\ ai.inFlight = "none"
  /\ TickBody(MaxAiTicks, MaxAiOrders)
  /\ ai' = [ai EXCEPT !.ticked = @ \/ ai.inFlight # "none"]
  /\ UNCHANGED <<simParams, customDemandProfiles, clusteredDarkStores, opTrace, sampler, opt, profileForm, genCall>>

\* the interval callback; ai.ticked records that it ran the step while a
\* request was in flight
aiTick ==
  /\ simState.isRunning
  /\ TickBody(MaxAiTicks, MaxAiOrders)
  /\ ai' = [ai EXCEPT !.ticked = @ \/ ai.inFlight # "none"]
  /\ UNCHANGED <<simParams, customDemandProfiles, clusteredDarkStores, opTrace, sampler, opt, profileForm, genCall>>

\* resetSim; ai.wasReset records that it ran while a request was in flight
aiReset ==
  /\ simState' = initialSimState(simParams.numAgents, clusteredDarkStores, << <<8, 0>> >>)
  /\ stepTrace' = EmptyTrace
  /\ ai' = [ai EXCEPT !.wasReset = @ \/ ai.inFlight # "none"]
  /\ UNCHANGED <<simParams, customDemandProfiles, clusteredDarkStores, opTrace, sampler, opt, profileForm, genCall>>

\* time passes
Elapse ==
  /\ ai.now < MaxNow
  /\ ai' = [ai EXCEPT !.now = @ + 1]
  /\ UNCHANGED <<simVars, opTrace, sampler, opt, profileForm, genCall>>

\* what the two handlers share, up to the await: the request is sent unless
\* the handler returns with a modal (cooldown, API key); both buttons are
\* disabled while isLoadingAi.  ai.lastSent records when the request of each
\* kind was last sent.
AiRequest(kind) ==
  /\ ai.inFlight = "none"
  /\ ~(ai.now - LastRequestTime(simState, kind) < Cooldown(kind))
  /\ ai.keyValid
  /\ ai' = [ai EXCEPT !.inFlight = kind, !.lastSent[kind] = ai.now,
                      !.ticked = FALSE, !.wasReset = FALSE]
  /\ UNCHANGED <<simVars, opTrace, sampler, opt, profileForm, genCall>>

handleAiAnalysisRequest ==
  /\ ~(simState.totalOrdersGenerated < 5 /\ simState.currentSimulationTime < 30)
  /\ AiRequest("analysis")

handleSuggestDynamicEvent ==
  /\ ~(~simState.isRunning /\ simState.currentSimulationTime < 15)
  /\ AiRequest("event")

\* the response stops the simulation
aiResponse_pausesSim ==
  /\ ai.inFlight # "none"
  /\ simState' = IF ai.inFlight = "analysis"
                 THEN [simState EXCEPT !.lastAiAnalysisRequestTime = ai.now, !.isRunning = FALSE]
                 ELSE [simState EXCEPT !.lastDynamicEventSuggestionTime = ai.now, !.isRunning = FALSE]
  /\ ai' = [ai EXCEPT !.inFlight = "none"]
  /\ UNCHANGED <<simParams, customDemandProfiles, clusteredDarkStores, stepTrace, opTrace, sampler, opt, profileForm, genCall>>

\* the continuation after the await when fetchGeminiTextGeneration resolves
aiResponse ==
  /\ ai.inFlight # "none"
  /\ simState' = IF ai.inFlight = "analysis"
                 THEN [simState EXCEPT !.lastAiAnalysisRequestTime = ai.now]
                 ELSE [simState EXCEPT !.lastDynamicEventSuggestionTime = ai.now]
  /\ ai' = [ai EXCEPT !.inFlight = "none"]
  /\ UNCHANGED <<simParams, customDemandProfiles, clusteredDarkStores, stepTrace, opTrace, sampler, opt, profileForm, genCall>>

\* the continuation when it rejects: the catch and finally blocks
aiFailure ==
  /\ ai.inFlight # "none"
  /\ ai' = [ai EXCEPT !.inFlight = "none"]
  /\ UNCHANGED <<simVars, opTrace, sampler, opt, profileForm, genCall>>

AiInit ==
  /\ simParams = [numAgents |-> 1, agentSpeedKmph |-> 25,
                  orderGenProfileId |-> "default_uniform_ccr",
                  baseTrafficFactor |-> 10, enableDynamicTraffic |-> FALSE]
  /\ customDemandProfiles = << >>
  /\ clusteredDarkStores = << >>
  /\ simState = initialSimState(1, clusteredDarkStores, << <<8, 0>> >>)
  /\ stepTrace = EmptyTrace
  /\ profileForm = FormIdle /\ genCall = GenIdle /\ opTrace = NoOp /\ sampler = SamplerIdle /\ opt = OptIdle
  /\ \E valid \in BOOLEAN :
       ai = [now |-> NowStart, keyValid |-> valid, inFlight |-> "none",
             lastSent |-> [k \in {"analysis", "event"} |-> Null],
             ticked |-> FALSE, wasReset |-> FALSE]

AiNext ==
  \/ aiTick
  \/ startSim
  \/ pauseSim
  \/ aiReset
  \/ Elapse
  \/ handleAiAnalysisRequest
  \/ handleSuggestDynamicEvent
  \/ aiResponse
  \/ aiFailure

AiSpec == AiInit /\ [][AiNext]_vars

(***************************************************************************)
(* WorkforceOptimizationSection: simplifiedSimulationRun, runOptimization  *)
(* and generateAndSetRecommendation.  Times are hundredths of a minute     *)
(* here, percentages hundredths of a percent, costs thousandths of a rupee *)
(***************************************************************************)
TScale == 100
Infinity == 1000000000

\* the orders one step of the generation loop can place: ordersThisStep is
\* rounded up with probability equal to its fraction
OrdersThisStepDraws(demandProfileId) ==
  LET rate == IF demandProfileId = "default_opt_peak_ccr" THEN 60 ELSE 25
      ordersThisStep == rate * MINUTES_PER_SIMULATION_STEP
  IN  { IF r < ordersThisStep % 100
        THEN (ordersThisStep + 99) \div 100
        ELSE ordersThisStep \div 100 : r \in RandVals }

\* the order lists the generation loop can build from step t_step on
RECURSIVE OptOrderLists(_, _, _, _)
OptOrderLists(t_step, maxSimTime, darkStore, demandProfileId) ==
  IF ~(t_step < maxSimTime) THEN { << >> }
  ELSE LET Placed(n, orderCoords) ==
             [i \in 1..n |-> [lat |-> orderCoords[1], lng |-> orderCoords[2],
                              timePlaced |-> t_step * TScale]]
       IN  { Placed(n, c) \o rest :
               n \in OrdersThisStepDraws(demandProfileId),
               c \in getRandomPointNearHotspot(darkStore, 50),
               rest \in OptOrderLists(t_step + MINUTES_PER_SIMULATION_STEP, maxSimTime,
                                      darkStore, demandProfileId) }

\* index of the first agent with the least availableAtTime
earliestAgentIndex(agents) ==
  CHOOSE i \in 1..Len(agents) :
    /\ \A j \in 1..Len(agents) : agents[i].availableAtTime <= agents[j].availableAtTime
    /\ \A j \in 1..(i - 1) : agents[j].availableAtTime > agents[i].availableAtTime

\* an agent is engaged when the order is placed, whether or not it is available
RECURSIVE ServeFrom_ignoresAvailability(_, _, _, _, _, _)
ServeFrom_ignoresAvailability(orders, k, run, darkStore, maxSimTime, targetSLA) ==
  IF k > Len(orders) \/ run.currentTime > maxSimTime * TScale THEN run
  ELSE LET Rest(r) == ServeFrom_ignoresAvailability(orders, k + 1, r, darkStore, maxSimTime, targetSLA)
           Deliver(order, a, engagementTime, distStoreToCustomer, deliveryDuration) ==
             IF engagementTime > maxSimTime * TScale THEN Rest(run)
             ELSE IF engagementTime + deliveryDuration > maxSimTime * TScale
             THEN Rest([run EXCEPT !.currentTime = engagementTime])
             ELSE Rest([run EXCEPT
                          !.currentTime = engagementTime,
                          !.deliveredOrders = @ + 1,
                          !.totalDeliveryTime =
                             @ + (engagementTime + deliveryDuration - order.timePlaced),
                          !.ordersMeetingSLA =
                             @ + (IF engagementTime + deliveryDuration - order.timePlaced
                                       <= targetSLA * TScale THEN 1 ELSE 0),
                          !.agents[a].availableAtTime = engagementTime + deliveryDuration,
                          !.agents[a].intervals =
                             Append(@, <<engagementTime, engagementTime + deliveryDuration>>),
                          !.agents[a].totalActiveTimeThisRun = @ + deliveryDuration,
                          !.agents[a].distanceThisRun = @ + distStoreToCustomer,
                          !.totalDistanceKm = @ + distStoreToCustomer])
           Engage(order, a, distStoreToCustomer) ==
             Deliver(order, a, order.timePlaced,
                     distStoreToCustomer,
                     (distStoreToCustomer * 3 * TScale) \div 1000
                       + BASE_HANDLING_TIME_MIN_OPT * TScale)
       IN  Engage(orders[k], earliestAgentIndex(run.agents),
                  getDistanceKm(darkStore, <<orders[k].lat, orders[k].lng>>))

\* the event loop over the orders from the k-th on; intervals is the history of
\* an agent's deliveries, <<engagementTime, completionTime>> each
RECURSIVE ServeFrom(_, _, _, _, _, _)
ServeFrom(orders, k, run, darkStore, maxSimTime, targetSLA) ==
  IF k > Len(orders) \/ run.currentTime > maxSimTime * TScale THEN run
  ELSE LET Rest(r) == ServeFrom(orders, k + 1, r, darkStore, maxSimTime, targetSLA)
           Deliver(order, a, engagementTime, distStoreToCustomer, deliveryDuration) ==
             IF engagementTime > maxSimTime * TScale THEN Rest(run)
             ELSE IF engagementTime + deliveryDuration > maxSimTime * TScale
             THEN Rest([run EXCEPT !.currentTime = engagementTime])
             ELSE Rest([run EXCEPT
                          !.currentTime = engagementTime,
                          !.deliveredOrders = @ + 1,
                          !.totalDeliveryTime =
                             @ + (engagementTime + deliveryDuration - order.timePlaced),
                          !.ordersMeetingSLA =
                             @ + (IF engagementTime + deliveryDuration - order.timePlaced
                                       <= targetSLA * TScale THEN 1 ELSE 0),
                          !.agents[a].availableAtTime = engagementTime + deliveryDuration,
                          !.agents[a].intervals =
                             Append(@, <<engagementTime, engagementTime + deliveryDuration>>),
                          !.agents[a].totalActiveTimeThisRun = @ + deliveryDuration,
                          !.agents[a].distanceThisRun = @ + distStoreToCustomer,
                          !.totalDistanceKm = @ + distStoreToCustomer])
           Engage(order, a, distStoreToCustomer) ==
             Deliver(order, a, Max(order.timePlaced, run.agents[a].availableAtTime),
                     distStoreToCustomer,
                     (distStoreToCustomer * 3 * TScale) \div 1000
                       + BASE_HANDLING_TIME_MIN_OPT * TScale)
       IN  Engage(orders[k], earliestAgentIndex(run.agents),
                  getDistanceKm(darkStore, <<orders[k].lat, orders[k].lng>>))

RECURSIVE SumInts(_)
SumInts(seq) ==
  IF seq = << >> THEN 0 ELSE Head(seq) + SumInts(Tail(seq))

SumField(seq, field) == SumInts([i \in 1..Len(seq) |-> seq[i][field]])

\* the statistics the runs of one configuration can return, with the agents of
\* the run as they are when it returns
simplifiedSimulationRun(numAgents, darkStore, demandProfileId, maxSimTime, targetSLA) ==
  LET Start == [currentTime |-> 0, deliveredOrders |-> 0, totalDeliveryTime |-> 0,
                ordersMeetingSLA |-> 0, totalDistanceKm |-> 0,
                agents |-> [i \in 1..numAgents |->
                              [availableAtTime |-> 0, totalActiveTimeThisRun |-> 0,
                               distanceThisRun |-> 0, intervals |-> << >>]]]
      Stats(orders, run) ==
        [deliveredOrders |-> run.deliveredOrders,
         totalDeliveryTime |-> run.totalDeliveryTime,
         avgUtilization |-> (SumField(run.agents, "totalActiveTimeThisRun") * 100) \div (numAgents * maxSimTime),
         ordersMeetingSLA |-> run.ordersMeetingSLA,
         generatedOrders |-> IF Len(orders) = 0 THEN 1 ELSE Len(orders),
         totalDistanceKm |-> run.totalDistanceKm,
         agents |-> run.agents]
      Run(orders) == Stats(orders, ServeFrom(orders, 1, Start, darkStore, maxSimTime, targetSLA))
  IN  { Run(orders) : orders \in OptOrderLists(0, maxSimTime, darkStore, demandProfileId) }

\* the row runOptimization aggregates from the runs of one agent count
Aggregated(numAgents, runResults, params) ==
  LET runs == params.numRunsPerAgentCount
      Row(totalDelivered, totalGenerated, totalDistance) ==
        [numAgents |-> numAgents,
         avgDeliveredOrders |-> (totalDelivered * 100) \div runs,
         avgDeliveryTime |-> IF totalDelivered > 0
                             THEN SumField(runResults, "totalDeliveryTime") \div totalDelivered ELSE 0,
         avgAgentUtilization |-> SumField(runResults, "avgUtilization") \div runs,
         avgTravelDistanceKm |-> totalDistance \div runs,
         percentageMeetingSLA |-> IF totalDelivered > 0
                                  THEN (SumField(runResults, "ordersMeetingSLA") * 10000) \div totalDelivered
                                  ELSE 0,
         completionRate |-> IF totalGenerated > 0
                            THEN (totalDelivered * 10000) \div totalGenerated ELSE 0,
         avgCostPerOrder |->
           IF totalDelivered > 0
           THEN ((numAgents * params.maxSimTimePerIteration * runs * AGENT_COST_PER_HOUR * 1000) \div 60
                   + totalDistance * COST_PER_KM_TRAVEL) \div totalDelivered
           ELSE Infinity]
  IN  Row(SumField(runResults, "deliveredOrders"), SumField(runResults, "generatedOrders"),
          SumField(runResults, "totalDistanceKm"))

\* the candidate filter of generateAndSetRecommendation; MIN_... * 0.8 * 100 is
\* 72.00000000000001 in floating point, so a rate of exactly 72 does not pass
RecCandidates(data, targetAvgDeliveryTime) ==
  LET strict == SelectSeq(data, LAMBDA iter :
                  /\ iter.completionRate >= MIN_DELIVERY_COMPLETION_RATE_TARGET * 100
                  /\ iter.percentageMeetingSLA >= TARGET_SLA_PERCENTAGE_TARGET * 100
                  /\ iter.avgDeliveryTime <= targetAvgDeliveryTime * TScale)
      relaxed == SelectSeq(data, LAMBDA iter :
                   iter.completionRate > (MIN_DELIVERY_COMPLETION_RATE_TARGET * 8 * 100) \div 10)
  IN  IF Len(strict) > 0 THEN strict
      ELSE IF Len(relaxed) > 0 THEN relaxed
      ELSE data

in_ideal_util(a) ==
  /\ a.avgAgentUtilization >= IDEAL_AGENT_UTILIZATION_MIN_PERCENT * 100
  /\ a.avgAgentUtilization <= IDEAL_AGENT_UTILIZATION_MAX_PERCENT * 100

\* distance of the utilization from the middle of the ideal band, times two
CenterDistance(a) ==
  LET d == 2 * a.avgAgentUtilization
             - (IDEAL_AGENT_UTILIZATION_MIN_PERCENT + IDEAL_AGENT_UTILIZATION_MAX_PERCENT) * 100
  IN  IF d < 0 THEN 0 - d ELSE d

\* the comparator ranks by cost alone
RecCompare_costOnly(a, b) ==
  IF a.avgCostPerOrder # b.avgCostPerOrder THEN a.avgCostPerOrder - b.avgCostPerOrder
  ELSE 0

\* the comparator of candidates.sort: negative when a goes before b
RecCompare(a, b) ==
  IF a.avgCostPerOrder # b.avgCostPerOrder THEN a.avgCostPerOrder - b.avgCostPerOrder
  ELSE IF in_ideal_util(a) /\ ~in_ideal_util(b) THEN 0 - 1
  ELSE IF ~in_ideal_util(a) /\ in_ideal_util(b) THEN 1
  ELSE CenterDistance(a) - CenterDistance(b)

\* Array.prototype.sort is stable: x goes behind every element it does not
\* come strictly before
RECURSIVE SortedInsert(_, _)
SortedInsert(sorted, x) ==
  IF sorted = << >> THEN <<x>>
  ELSE IF RecCompare(x, Head(sorted)) < 0 THEN <<x>> \o sorted
  ELSE <<Head(sorted)>> \o SortedInsert(Tail(sorted), x)

RECURSIVE SortCandidates(_)
SortCandidates(candidates) ==
  IF candidates = << >> THEN << >>
  ELSE SortedInsert(SortCandidates(SubSeq(candidates, 1, Len(candidates) - 1)),
                    candidates[Len(candidates)])

\* the candidates are taken from the whole table whatever the targets
generateAndSetRecommendation_noFilter(data, targetAvgDeliveryTime) ==
  IF Len(data) = 0 THEN << >>
  ELSE <<SortCandidates(data)[1]>>

\* << >>: "No data for recommendation."; otherwise <<best>>
generateAndSetRecommendation(data, targetAvgDeliveryTime) ==
  IF Len(data) = 0 THEN << >>
  ELSE <<SortCandidates(RecCandidates(data, targetAvgDeliveryTime))[1]>>

\* the stores the optimization section is mounted with: one 330 m from the
\* default point and one about 3.9 km from it
OptStoreLists == { << <<307363, 767794>>, <<307100, 767500>> >> }

\* the values the form of the section holds when the sweep is started
OptParams ==
  { params \in [targetAvgDeliveryTime : {25},
                selectedDarkStoreIndex : {Null, 0, 1},
                demandProfileId : {"default_opt_uniform_ccr", "default_opt_peak_ccr"},
                minAgentsToTest : 1..MaxOptAgents,
                maxAgentsToTest : 2..MaxOptAgents,
                numRunsPerAgentCount : 1..MaxOptRuns,
                maxSimTimePerIteration : {30}] :
      (params.maxAgentsToTest - params.minAgentsToTest + 1) * params.numRunsPerAgentCount
        <= MaxOptSweepRuns }

\* the sweep stops one agent count early
MoreAgentCounts_exclusive(numAgents, params) == numAgents < params.maxAgentsToTest

\* the condition of the loop over the agent counts
MoreAgentCounts(numAgents, params) == numAgents <= params.maxAgentsToTest

\* runOptimization up to its first await
runOptimization ==
  /\ opt.pc \in {"ready", "done"}
  /\ IF \/ opt.params.selectedDarkStoreIndex = Null
        \/ Len(clusteredDarkStores) = 0
        \/ ~(opt.params.selectedDarkStoreIndex + 1 \in 1..Len(clusteredDarkStores))
     THEN UNCHANGED opt
     ELSE IF MoreAgentCounts(opt.params.minAgentsToTest, opt.params)
     THEN opt' = [opt EXCEPT !.pc = "running", !.numAgents = opt.params.minAgentsToTest,
                             !.runResults = << >>, !.rows = << >>, !.best = << >>,
                             !.lastStats = << >>]
     ELSE opt' = [opt EXCEPT !.pc = "done", !.runResults = << >>, !.rows = << >>,
                             !.lastStats = << >>,
                             !.best = generateAndSetRecommendation(
                                        << >>, opt.params.targetAvgDeliveryTime)]
  /\ UNCHANGED <<simVars, opTrace, ai, sampler, profileForm, genCall>>

\* one run of the sweep: the continuation of runOptimization after an await, up to
\* the next await or to the end of the function
optimizationRun ==
  /\ opt.pc = "running"
  /\ \E stats \in simplifiedSimulationRun(
                    opt.numAgents, clusteredDarkStores[opt.params.selectedDarkStoreIndex + 1],
                    opt.params.demandProfileId, opt.params.maxSimTimePerIteration,
                    opt.params.targetAvgDeliveryTime) :
       \E runResultsForAgentCount \in {Append(opt.runResults, stats)} :
         IF Len(runResultsForAgentCount) < opt.params.numRunsPerAgentCount
         THEN opt' = [opt EXCEPT !.runResults = runResultsForAgentCount, !.lastStats = runResultsForAgentCount]
         ELSE \E allIterationsData \in
                   {Append(opt.rows, Aggregated(opt.numAgents, runResultsForAgentCount,
                                                opt.params))} :
                IF MoreAgentCounts(opt.numAgents + 1, opt.params)
                THEN opt' = [opt EXCEPT !.numAgents = @ + 1, !.runResults = << >>,
                                        !.rows = allIterationsData, !.lastStats = runResultsForAgentCount]
                ELSE opt' = [opt EXCEPT !.pc = "done", !.runResults = << >>,
                                        !.rows = allIterationsData, !.lastStats = runResultsForAgentCount,
                                        !.best = generateAndSetRecommendation(
                                                   allIterationsData,
                                                   opt.params.targetAvgDeliveryTime)]
  /\ UNCHANGED <<simVars, opTrace, ai, sampler, profileForm, genCall>>

OptInit ==
  /\ simParams = [numAgents |-> 1, agentSpeedKmph |-> 25,
                  orderGenProfileId |-> "default_uniform_ccr",
                  baseTrafficFactor |-> 10, enableDynamicTraffic |-> FALSE]
  /\ customDemandProfiles = << >>
  /\ clusteredDarkStores \in OptStoreLists
  /\ simState = initialSimState(1, clusteredDarkStores, << <<8, 0>> >>)
  /\ stepTrace = EmptyTrace
  /\ profileForm = FormIdle /\ genCall = GenIdle /\ opTrace = NoOp /\ ai = AiIdle /\ sampler = SamplerIdle
  /\ \E params \in OptParams : opt = [OptIdle EXCEPT !.pc = "ready", !.params = params]

OptNext ==
  \/ runOptimization
  \/ optimizationRun

OptSpec == OptInit /\ [][OptNext]_vars

(***************************************************************************)
(* generateAndSetRecommendation on result tables drawn from a bounded set  *)
(***************************************************************************)
\* completionRate, percentageMeetingSLA and avgDeliveryTime of a row: all targets
\* met, SLA percentage missed, delivery time over the target, completion rate of
\* exactly 72, completion rate of 50
RecQualities ==
  { <<9500, 9000, 2000>>, <<9500, 8000, 2000>>, <<9500, 9000, 3000>>,
    <<7200, 9000, 2000>>, <<5000, 9000, 2000>> }

RecRow(numAgents, quality, utilization, cost) ==
  [numAgents |-> numAgents, avgDeliveredOrders |-> IF cost = Infinity THEN 0 ELSE 500,
   avgDeliveryTime |-> quality[3], avgAgentUtilization |-> utilization,
   avgTravelDistanceKm |-> 0, percentageMeetingSLA |-> quality[2],
   completionRate |-> quality[1], avgCostPerOrder |-> cost]

\* the result tables of up to MaxRecRows rows, one row per agent count
RecTables ==
  UNION { { [i \in 1..n |-> RecRow(i, f[i][1], f[i][2], f[i][3])] :
              f \in [1..n -> RecQualities \X {5000, 7000, 7600, 9000}
                                \X {100000, 200000, Infinity}] } :
          n \in 0..MaxRecRows }

\* the end of runOptimization on a given table
recommend ==
  /\ opt.pc = "table"
  /\ opt' = [opt EXCEPT !.pc = "recommended",
                        !.best = generateAndSetRecommendation(
                                   opt.rows, opt.params.targetAvgDeliveryTime)]
  /\ UNCHANGED <<simVars, opTrace, ai, sampler, profileForm, genCall>>

RecInit ==
  /\ simParams = [numAgents |-> 1, agentSpeedKmph |-> 25,
                  orderGenProfileId |-> "default_uniform_ccr",
                  baseTrafficFactor |-> 10, enableDynamicTraffic |-> FALSE]
  /\ customDemandProfiles = << >>
  /\ clusteredDarkStores = << >>
  /\ simState = initialSimState(1, clusteredDarkStores, << <<8, 0>> >>)
  /\ stepTrace = EmptyTrace
  /\ profileForm = FormIdle /\ genCall = GenIdle /\ opTrace = NoOp /\ ai = AiIdle /\ sampler = SamplerIdle
  /\ \E data \in RecTables :
       opt = [OptIdle EXCEPT !.pc = "table", !.rows = data,
                             !.params = [targetAvgDeliveryTime |-> 25]]

RecNext == recommend

RecSpec == RecInit /\ [][RecNext]_vars

(***************************************************************************)
(* getRandomPointInCcr and getRandomPointNearHotspot step by step: one     *)
(* action per call and one per iteration of the do-while                   *)
(***************************************************************************)
\* the ring of ccrGeoJsonPolygon with every vertex as <<lat, lng>>, the order
\* isPointInPolygon reads
ccrRingLatLng == [i \in 1..Len(ccrRing) |-> <<ccrRing[i][2], ccrRing[i][1]>>]

\* the regions the sampler is run against: the configured ring, which no
\* sample passes, and a ring some samples pass
SamplerRings == {ccrRing, ccrRingLatLng}

HotspotCenters == {defaultDarkStoreLocationSim, <<307400, 767780>>, <<308400, 767780>>}

callGetRandomPointInCcr ==
  /\ sampler.pc = "idle"
  /\ sampler' = [sampler EXCEPT !.pc = "loop", !.caller = "getRandomPointInCcr",
                                !.attempts = 0, !.point = << >>, !.result = << >>]
  /\ UNCHANGED <<simVars, opTrace, ai, opt, profileForm, genCall>>

\* the point is returned when it passes the test; otherwise getRandomPointInCcr
\* is called
callGetRandomPointNearHotspot ==
  /\ sampler.pc = "idle"
  /\ \E center \in HotspotCenters, radiusKm \in {20, 50}, d \in hotspotDraws :
       \E point \in { << center[1] + (radiusKm * 10 * d[1] * d[2][2]) \div LatUnitMeters,
                         center[2] + (radiusKm * 10 * d[1] * d[2][1]) \div LngUnitMeters >> } :
         IF ~isPointInPolygon(point, sampler.ring)
         THEN sampler' = [sampler EXCEPT !.pc = "loop", !.caller = "getRandomPointNearHotspot",
                                         !.attempts = 0, !.point = << >>, !.result = << >>]
         ELSE sampler' = [sampler EXCEPT !.pc = "done", !.caller = "getRandomPointNearHotspot",
                                         !.attempts = 0, !.point = << >>, !.result = point]
  /\ UNCHANGED <<simVars, opTrace, ai, opt, profileForm, genCall>>

\* the iteration draws a point and tests it, and counts nothing
sampleStep_noCount ==
  /\ sampler.pc = "loop"
  /\ \E point \in ccrSamplePoints :
       IF ~isPointInPolygon(point, sampler.ring)
       THEN sampler' = [sampler EXCEPT !.point = point]
       ELSE sampler' = [sampler EXCEPT !.pc = "done", !.point = point, !.result = point]
  /\ UNCHANGED <<simVars, opTrace, ai, opt, profileForm, genCall>>

\* one iteration of the do-while of getRandomPointInCcr
sampleStep ==
  /\ sampler.pc = "loop"
  /\ \E point \in ccrSamplePoints :
       IF sampler.attempts + 1 > MAX_ATTEMPTS
       THEN sampler' = [sampler EXCEPT !.pc = "done", !.attempts = @ + 1, !.point = point,
                                       !.result = defaultDarkStoreLocationSim]
       ELSE IF ~isPointInPolygon(point, sampler.ring)
       THEN sampler' = [sampler EXCEPT !.attempts = @ + 1, !.point = point]
       ELSE sampler' = [sampler EXCEPT !.pc = "done", !.attempts = @ + 1, !.point = point,
                                       !.result = point]
  /\ UNCHANGED <<simVars, opTrace, ai, opt, profileForm, genCall>>

\* the caller takes the returned point
samplerReturn ==
  /\ sampler.pc = "done"
  /\ sampler' = [sampler EXCEPT !.pc = "idle"]
  /\ UNCHANGED <<simVars, opTrace, ai, opt, profileForm, genCall>>

SamplerInit ==
  /\ simParams = [numAgents |-> 1, agentSpeedKmph |-> 25,
                  orderGenProfileId |-> "default_uniform_ccr",
                  baseTrafficFactor |-> 10, enableDynamicTraffic |-> FALSE]
  /\ customDemandProfiles = << >>
  /\ clusteredDarkStores = << >>
  /\ simState = initialSimState(1, clusteredDarkStores, << <<8, 0>> >>)
  /\ stepTrace = EmptyTrace
  /\ profileForm = FormIdle /\ genCall = GenIdle /\ opTrace = NoOp /\ ai = AiIdle /\ opt = OptIdle
  /\ \E ring \in SamplerRings : sampler = [SamplerIdle EXCEPT !.ring = ring]

SamplerNext ==
  \/ callGetRandomPointInCcr
  \/ callGetRandomPointNearHotspot
  \/ sampleStep
  \/ samplerReturn

\* a call that has started runs on: the loop is synchronous code
SamplerSpec == SamplerInit /\ [][SamplerNext]_vars /\ WF_vars(sampleStep)

(***************************************************************************)
(* ScenarioAnalysisSection: the demand profile form and handleSaveProfile  *)
(***************************************************************************)
\* parseInt / parseFloat of an empty or non-numeric field
NaN == 0 - 999

\* the relational operators on numbers: every comparison with NaN is false
JsLess(a, b) == a # NaN /\ b # NaN /\ a < b
JsLessEq(a, b) == a # NaN /\ b # NaN /\ a <= b
JsGreater(a, b) == a # NaN /\ b # NaN /\ a > b

\* what the number fields of a zone can be set to
OrderInputs == {NaN, 0 - 1, 5, 10}
HourInputs == {NaN, 0, 23, 24}
RadiusInputs == {NaN, 0, 15}
MapClicks == {<<307400, 767780>>, <<307500, 767900>>}

DefaultFormZone == UniformZone(5, 10, 0, 23)

setProfileName ==
  /\ Len(customDemandProfiles) < MaxStoredProfiles
  /\ \E value \in {"", "Evening Rush"} :
       /\ value # profileForm.profileName
       /\ profileForm' = [profileForm EXCEPT !.profileName = value]
  /\ UNCHANGED <<simVars, opTrace, ai, sampler, opt, genCall>>

addZoneToProfileForm ==
  /\ Len(customDemandProfiles) < MaxStoredProfiles
  /\ Len(profileForm.zones) < MaxFormZones
  /\ profileForm' = [profileForm EXCEPT !.zones = Append(@, DefaultFormZone)]
  /\ UNCHANGED <<simVars, opTrace, ai, sampler, opt, genCall>>

removeZone ==
  /\ Len(customDemandProfiles) < MaxStoredProfiles
  /\ \E i \in 1..Len(profileForm.zones) :
       profileForm' = [profileForm EXCEPT !.zones =
                         SubSeq(@, 1, i - 1) \o SubSeq(@, i + 1, Len(@))]
  /\ UNCHANGED <<simVars, opTrace, ai, sampler, opt, genCall>>

\* updateZoneField from the inputs the form renders for the zone
updateZoneField ==
  /\ Len(customDemandProfiles) < MaxStoredProfiles
  /\ \E i \in 1..Len(profileForm.zones) :
       \E zone \in {profileForm.zones[i]} :
         \E updatedZone \in
              { [zone EXCEPT !.type = "hotspot", !.center = << >>, !.radius = 15,
                             !.routePath = << >>, !.buffer = 0, !.sectors = << >>],
                [zone EXCEPT !.type = "route", !.routePath = << >>, !.buffer = 5,
                             !.center = << >>, !.radius = 0, !.sectors = << >>],
                [zone EXCEPT !.type = "sector", !.sectors = << >>,
                             !.center = << >>, !.radius = 0, !.routePath = << >>, !.buffer = 0],
                [zone EXCEPT !.type = "uniform_ccr", !.sectors = << >>,
                             !.center = << >>, !.radius = 0, !.routePath = << >>, !.buffer = 0] }
              \cup { [zone EXCEPT !.radius = v] : v \in IF zone.type = "hotspot" THEN RadiusInputs ELSE {} }
              \cup { [zone EXCEPT !.buffer = v] : v \in IF zone.type = "route" THEN RadiusInputs ELSE {} }
              \cup { [zone EXCEPT !.sectors = v] :
                       v \in IF zone.type = "sector"
                             THEN { << >>, <<"Sector 17 (City Center)">> } ELSE {} }
              \cup { [zone EXCEPT !.minOrders = v] : v \in OrderInputs }
              \cup { [zone EXCEPT !.maxOrders = v] : v \in OrderInputs }
              \cup { [zone EXCEPT !.startTime = v] : v \in HourInputs }
              \cup { [zone EXCEPT !.endTime = v] : v \in HourInputs } :
           /\ updatedZone # zone
           /\ profileForm' = [profileForm EXCEPT !.zones[i] = updatedZone]
  /\ UNCHANGED <<simVars, opTrace, ai, sampler, opt, genCall>>

\* a click on the map with the zone active: the center of a hotspot, the next
\* point of a route
handleMapClick ==
  /\ Len(customDemandProfiles) < MaxStoredProfiles
  /\ \E i \in 1..Len(profileForm.zones), clickedLatLng \in MapClicks :
       /\ \/ /\ profileForm.zones[i].type = "hotspot"
             /\ profileForm.zones[i].center # clickedLatLng
             /\ profileForm' = [profileForm EXCEPT !.zones[i].center = clickedLatLng]
          \/ /\ profileForm.zones[i].type = "route"
             /\ Len(profileForm.zones[i].routePath) < 2
             /\ profileForm' = [profileForm EXCEPT !.zones[i].routePath = Append(@, clickedLatLng)]
  /\ UNCHANGED <<simVars, opTrace, ai, sampler, opt, genCall>>

\* the checks of handleSaveProfile on one zone, as JavaScript evaluates them
ZoneRejected(zone) ==
  \/ JsLess(zone.minOrders, 0) \/ JsLess(zone.maxOrders, zone.minOrders)
  \/ JsLess(zone.startTime, 0) \/ JsGreater(zone.startTime, 23)
  \/ JsLess(zone.endTime, 0) \/ JsGreater(zone.endTime, 23)
  \/ JsGreater(zone.startTime, zone.endTime)
  \/ zone.type = "hotspot" /\ (zone.center = << >> \/ JsLessEq(zone.radius, 0))
  \/ zone.type = "route" /\ (Len(zone.routePath) < 2 \/ JsLessEq(zone.buffer, 0))
  \/ zone.type = "sector" /\ Len(zone.sectors) = 0

\* the profile is stored whatever its zones hold
handleSaveProfile_noZoneChecks ==
  /\ Len(customDemandProfiles) < MaxStoredProfiles
  /\ IF profileForm.profileName = "" \/ Len(profileForm.zones) = 0
     THEN /\ profileForm' = [profileForm EXCEPT !.modal = "Validation Error"]
          /\ UNCHANGED customDemandProfiles
     ELSE /\ customDemandProfiles' =
               Append(customDemandProfiles, [id |-> "profile_1", zones |-> profileForm.zones])
          /\ profileForm' = [profileName |-> "", zones |-> <<DefaultFormZone>>,
                             modal |-> "Profile Saved"]
  /\ UNCHANGED <<simParams, simState, clusteredDarkStores, stepTrace, opTrace, ai, sampler, opt, genCall>>

handleSaveProfile ==
  /\ Len(customDemandProfiles) < MaxStoredProfiles
  /\ IF \/ profileForm.profileName = ""
        \/ Len(profileForm.zones) = 0
        \/ \E i \in 1..Len(profileForm.zones) : ZoneRejected(profileForm.zones[i])
     THEN /\ profileForm' = [profileForm EXCEPT !.modal = "Validation Error"]
          /\ UNCHANGED customDemandProfiles
     ELSE /\ customDemandProfiles' =
               Append(customDemandProfiles, [id |-> "profile_1", zones |-> profileForm.zones])
          /\ profileForm' = [profileName |-> "", zones |-> <<DefaultFormZone>>,
                             modal |-> "Profile Saved"]
  /\ UNCHANGED <<simParams, simState, clusteredDarkStores, stepTrace, opTrace, ai, sampler, opt, genCall>>

\* the form as the section mounts it: no name, the default zone
ProfileInit ==
  /\ simParams = [numAgents |-> 1, agentSpeedKmph |-> 25,
                  orderGenProfileId |-> "default_uniform_ccr",
                  baseTrafficFactor |-> 10, enableDynamicTraffic |-> FALSE]
  /\ customDemandProfiles = << >>
  /\ clusteredDarkStores = << >>
  /\ simState = initialSimState(1, clusteredDarkStores, << <<8, 0>> >>)
  /\ stepTrace = EmptyTrace
  /\ opTrace = NoOp /\ ai = AiIdle /\ sampler = SamplerIdle /\ opt = OptIdle
  /\ profileForm = [FormIdle EXCEPT !.zones = <<DefaultFormZone>>]
  /\ genCall = GenIdle

ProfileNext ==
  \/ setProfileName
  \/ addZoneToProfileForm
  \/ removeZone
  \/ updateZoneField
  \/ handleMapClick
  \/ handleSaveProfile

ProfileSpec == ProfileInit /\ [][ProfileNext]_vars

(***************************************************************************)
(* The delivery cycle of an agent under the interval callback alone: the   *)
(* simulation is started once and never paused                             *)
(***************************************************************************)
\* a stored profile whose only zone spawns no order or one order per tick
CycleProfile == [id |-> "custom_cycle", zones |-> << UniformZone(0, 12, 0, 23) >>]

\* no clustered stores; two stores about 4 km from the default point; a store
\* where the agent starts and a store on the default point
CycleStoreLists ==
  { << >>,
    << <<307100, 767500>>, <<307600, 768100>> >>,
    << <<307341, 767794>>, <<307333, 767794>> >> }

\* the interval callback while the simulation runs; the call is put on record
cycleTick ==
  /\ simState.isRunning
  /\ TickBody(MaxCycleTicks, MaxCycleOrders)
  /\ opTrace' = Op("tick", TRUE, FALSE, NoPause, << >>)
  /\ UNCHANGED <<simParams, customDemandProfiles, clusteredDarkStores, ai, sampler, opt, profileForm, genCall>>

\* the callback is called: exactly the cycleTick steps are cycleFire steps, and
\* cycleFire is enabled exactly when cycleTick is (the zone of CycleProfile can
\* always draw no order)
cycleFire ==
  /\ simState.isRunning
  /\ simState.currentSimulationTime < MaxCycleTicks * MINUTES_PER_SIMULATION_STEP
  /\ opTrace' = Op("tick", TRUE, FALSE, NoPause, << >>)

CycleInit ==
  /\ simParams = [numAgents |-> 1, agentSpeedKmph |-> 25,
                  orderGenProfileId |-> CycleProfile.id,
                  baseTrafficFactor |-> 10, enableDynamicTraffic |-> FALSE]
  /\ customDemandProfiles = <<CycleProfile>>
  /\ clusteredDarkStores \in CycleStoreLists
  /\ simState = initialSimState(1, clusteredDarkStores, << <<8, 0>> >>)
  /\ stepTrace = EmptyTrace
  /\ profileForm = FormIdle /\ genCall = GenIdle /\ opTrace = NoOp /\ ai = AiIdle /\ sampler = SamplerIdle /\ opt = OptIdle

CycleNext ==
  \/ startSim
  \/ cycleTick

\* setInterval keeps calling the callback while the simulation runs
CycleSpec == CycleInit /\ [][CycleNext]_vars /\ WF_opTrace(cycleFire)

(***************************************************************************)
(* generateOrdersLogic as a function of the tick time and of the zone of   *)
(* the selected profile                                                    *)
(***************************************************************************)
\* [startTime, endTime] of a zone, in hours
GenWindows == { <<0, 0>>, <<0, 23>>, <<1, 2>> }

\* [minOrders, maxOrders] of a zone, in orders per hour
GenRates == { <<0, 12>>, <<12, 12>>, <<24, 24>>, <<6, 30>> }

GenProfiles ==
  { [id |-> "custom_gen", zones |-> << UniformZone(r[1], r[2], w[1], w[2]) >>] :
      r \in GenRates, w \in GenWindows }

\* the times runSimulationStep passes: prevState.currentSimulationTime + 5
GenTimes == { k * MINUTES_PER_SIMULATION_STEP : k \in 1..MaxGenTicks }

callGenerateOrdersLogic ==
  /\ genCall.pc = "idle"
  /\ \E result \in generateOrdersLogic(simState.orderIdCounter, simParams.orderGenProfileId,
                                       genCall.currentTime, customDemandProfiles,
                                       simState.darkStoreLocations) :
       genCall' = [genCall EXCEPT !.pc = "returned", !.result = result]
  /\ UNCHANGED <<simVars, opTrace, ai, sampler, opt, profileForm>>

GenInit ==
  /\ simParams = [numAgents |-> 1, agentSpeedKmph |-> 25,
                  orderGenProfileId |-> "custom_gen",
                  baseTrafficFactor |-> 10, enableDynamicTraffic |-> FALSE]
  /\ customDemandProfiles \in { <<p>> : p \in GenProfiles }
  /\ clusteredDarkStores = << >>
  /\ simState = initialSimState(1, clusteredDarkStores, << <<8, 0>> >>)
  /\ stepTrace = EmptyTrace
  /\ genCall \in { [GenIdle EXCEPT !.currentTime = t] : t \in GenTimes }
  /\ profileForm = FormIdle /\ opTrace = NoOp /\ ai = AiIdle /\ sampler = SamplerIdle /\ opt = OptIdle

GenNext == callGenerateOrdersLogic

GenSpec == GenInit /\ [][GenNext]_vars

(***************************************************************************)
(* Properties                                                              *)
(***************************************************************************)
Agents == { simState.agents[i] : i \in 1..Len(simState.agents) }
Orders == { simState.orders[i] : i \in 1..Len(simState.orders) }

\* C1: in every reachable state, for every agent, status is available if and
\* only if currentOrder is null, and if and only if routePath is empty
C1_AvailableIffIdle ==
  \A a \in Agents :
    /\ (a.status = "available") <=> (a.currentOrder = Null)
    /\ (a.status = "available") <=> (a.routePath = << >>)

\* an agent handling an order at the store, and one that has none
C1_Witness ==
  /\ \E a \in Agents : a.status = "at_store" /\ a.currentOrder # Null /\ a.routePath # << >>
  /\ \E a \in Agents : a.status = "available"

\* C2 as stated: the route is non-empty exactly when the status is to_store or
\* to_customer, so it is empty while available and while at_store
C2_RouteOnlyWhileTravelling ==
  \A a \in Agents : (a.routePath # << >>) <=> (a.status \in {"to_store", "to_customer"})

\* C2, amended: the route is non-empty exactly when the status is to_store,
\* at_store or to_customer; it is empty while the agent is available
C2_RouteWhileBusy ==
  \A a \in Agents : (a.routePath # << >>) <=> (a.status \in {"to_store", "at_store", "to_customer"})

\* an agent at the store that still carries its route
C2_Witness ==
  \E a \in Agents : a.status = "at_store" /\ Len(a.routePath) > 1

StatusRank(status) ==
  CASE status = "pending" -> 0
    [] status = "assigned" -> 1
    [] status = "picked_up" -> 2
    [] status = "delivered" -> 3

\* C3: in every step an order that stays in the list keeps its status or moves
\* to the next one of pending -> assigned -> picked_up -> delivered; a
\* delivered order keeps its status
C3_StatusForward ==
  [][ \A i \in 1..Len(simState.orders) :
        (i <= Len(simState'.orders) /\ simState'.orders[i].id = simState.orders[i].id)
          => /\ StatusRank(simState'.orders[i].status) - StatusRank(simState.orders[i].status)
                  \in {0, 1}
             /\ simState.orders[i].status = "delivered"
                  => simState'.orders[i].status = "delivered" ]_vars

\* an order that has moved two steps along the chain
C3_Witness ==
  \E o \in Orders : o.status = "picked_up"

\* C4: for every order, timePlaced <= storeArrivalTime <= customerArrivalTime
\* whenever the later timestamps are set, and a delivered order has
\* deliveryTime = customerArrivalTime - timePlaced
C4_TimestampOrder ==
  \A o \in Orders :
    /\ o.storeArrivalTime # Null => o.timePlaced <= o.storeArrivalTime
    /\ o.customerArrivalTime # Null => o.timePlaced <= o.customerArrivalTime
    /\ (o.storeArrivalTime # Null /\ o.customerArrivalTime # Null)
         => o.storeArrivalTime <= o.customerArrivalTime
    /\ o.status = "delivered" => o.deliveryTime = o.customerArrivalTime - o.timePlaced

\* an order placed after the first tick whose store arrival is recorded
C4_Witness ==
  \E o \in Orders : o.storeArrivalTime # Null /\ o.timePlaced > MINUTES_PER_SIMULATION_STEP

\* The last invocation of the assigner, as recorded by the tick
AssignerRan == Len(stepTrace.agentsBeforeAssign) > 0
PendingBefore ==
  { i \in 1..Len(stepTrace.ordersBeforeAssign) : stepTrace.ordersBeforeAssign[i].status = "pending" }
AvailableBefore ==
  { a \in 1..Len(stepTrace.agentsBeforeAssign) : stepTrace.agentsBeforeAssign[a].status = "available" }
\* the orders the invocation bound
BoundNow == { i \in PendingBefore : stepTrace.ordersAfterAssign[i].status # "pending" }
\* the list position of the agent order i was bound to (0: none)
BoundAgent(i) ==
  IF \E a \in 1..Len(stepTrace.agentsAfterAssign) :
       stepTrace.agentsAfterAssign[a].id = stepTrace.ordersAfterAssign[i].assignedAgentId
  THEN CHOOSE a \in 1..Len(stepTrace.agentsAfterAssign) :
         stepTrace.agentsAfterAssign[a].id = stepTrace.ordersAfterAssign[i].assignedAgentId
  ELSE 0

\* C5: within one invocation the pending orders are served in list order; an
\* order is bound to at most one agent, which was available, no agent is
\* bound to two orders, and an agent bound to an earlier order is not bound
\* to a later one
C5_OneToOneInListOrder ==
  AssignerRan =>
    /\ Len(stepTrace.ordersAfterAssign) = Len(stepTrace.ordersBeforeAssign)
    /\ Len(stepTrace.agentsAfterAssign) = Len(stepTrace.agentsBeforeAssign)
    /\ \A i \in BoundNow :
         /\ stepTrace.ordersAfterAssign[i].status = "assigned"
         /\ BoundAgent(i) \in AvailableBefore
         /\ { a \in 1..Len(stepTrace.agentsAfterAssign) :
                /\ stepTrace.agentsAfterAssign[a].currentOrder = stepTrace.ordersAfterAssign[i].id
                /\ stepTrace.agentsAfterAssign[a].status = "to_store" } = {BoundAgent(i)}
         /\ \A j \in BoundNow : j # i => BoundAgent(j) # BoundAgent(i)
    /\ \A i \in PendingBefore : \A j \in BoundNow : i < j => i \in BoundNow
    /\ \A a \in 1..Len(stepTrace.agentsAfterAssign) :
         \/ stepTrace.agentsAfterAssign[a] = stepTrace.agentsBeforeAssign[a]
         \/ \E i \in BoundNow : BoundAgent(i) = a

\* one invocation bound two orders, and one left a pending order unbound
\* behind a bound one
C5_Witness ==
  /\ AssignerRan
  /\ Cardinality(BoundNow) >= 2

\* the estimate of the agent at list position a for order i of the invocation
EtaBefore(a, i) ==
  Eta(stepTrace.agentsBeforeAssign[a], stepTrace.ordersBeforeAssign[i],
      bestDarkStoreForOrder(stepTrace.ordersBeforeAssign[i], simState.darkStoreLocations),
      simParams.agentSpeedKmph, simParams.baseTrafficFactor)
\* the agents still available when order i is served
PoolFor(i) ==
  { a \in AvailableBefore : ~ \E j \in BoundNow : j < i /\ BoundAgent(j) = a }

\* C6: the agent bound to an order has the minimum estimated time among the
\* agents still available when the order is served, and of the agents that
\* share the minimum it is the first of the agent list
C6_MinEtaFirstWins ==
  AssignerRan =>
    \A i \in BoundNow :
      /\ BoundAgent(i) \in PoolFor(i)
      /\ \A a \in PoolFor(i) :
           /\ ~EtaLess(EtaBefore(a, i), EtaBefore(BoundAgent(i), i))
           /\ a < BoundAgent(i) => EtaLess(EtaBefore(BoundAgent(i), i), EtaBefore(a, i))

\* an order was bound while two agents of equal estimate were available
C6_Witness ==
  /\ AssignerRan
  /\ \E i \in BoundNow : \E a \in PoolFor(i) :
       /\ a # BoundAgent(i)
       /\ ~EtaLess(EtaBefore(BoundAgent(i), i), EtaBefore(a, i))

\* an order was bound to the strictly nearer of two available agents, which
\* is not the first of the list
C6_WitnessNearer ==
  /\ AssignerRan
  /\ \E i \in BoundNow : \E a \in PoolFor(i) :
       /\ a < BoundAgent(i)
       /\ EtaLess(EtaBefore(BoundAgent(i), i), EtaBefore(a, i))

\* C7: an invocation that starts with no pending order and no available agent
\* returns every agent and every order unchanged; and when it starts with no
\* available agent every pending order stays pending without an agent
C7_NoOpWithoutAgents ==
  AssignerRan =>
    /\ (PendingBefore = {} /\ AvailableBefore = {})
         => /\ stepTrace.agentsAfterAssign = stepTrace.agentsBeforeAssign
            /\ stepTrace.ordersAfterAssign = stepTrace.ordersBeforeAssign
    /\ AvailableBefore = {}
         => \A i \in PendingBefore :
              /\ stepTrace.ordersAfterAssign[i].status = "pending"
              /\ stepTrace.ordersAfterAssign[i].assignedAgentId = Null

\* an invocation with a pending order and no available agent
C7_Witness ==
  /\ AssignerRan
  /\ AvailableBefore = {}
  /\ PendingBefore # {}

\* an invocation with neither a pending order nor an available agent
C7_WitnessNothingToDo ==
  /\ AssignerRan
  /\ AvailableBefore = {}
  /\ PendingBefore = {}

\* The last run of the fatigue model: what it was given and what it returned
FatigueRan ==
  /\ Len(stepTrace.agentsBeforeFatigue) > 0
  /\ Len(stepTrace.agentsBeforeFatigue) = Len(simState.agents)
FatigueSeen(i) == stepTrace.agentsBeforeFatigue[i]

\* C8: the fatigue factor of every agent stays within [0.5, 1.0]
C8_FatigueInRange ==
  \A a \in Agents : a.fatigueFactor >= FatigueFloor /\ a.fatigueFactor <= FatigueFull

\* a reduction that the floor cut short
C8_Witness ==
  /\ FatigueRan
  /\ \E i \in 1..Len(simState.agents) :
       /\ FatigueSeen(i).fatigueFactor - FATIGUE_FACTOR_REDUCTION < FatigueFloor
       /\ FatigueSeen(i).fatigueFactor > FatigueFloor
       /\ simState.agents[i].fatigueFactor = FatigueFloor

\* a recovery that the ceiling cut short
C8_WitnessCeiling ==
  /\ FatigueRan
  /\ \E i \in 1..Len(simState.agents) :
       /\ FatigueSeen(i).fatigueFactor + FATIGUE_FACTOR_RECOVERY_RATE > FatigueFull
       /\ FatigueSeen(i).fatigueFactor < FatigueFull
       /\ simState.agents[i].fatigueFactor = FatigueFull

\* C9: the fatigue factor does not increase in a tick in which the fatigue
\* model sees the agent busy and does not decrease in one in which it sees it
\* available; it decreases only with consecutive deliveries >= 5 or
\* continuous active time >= 180, and increases only with idle time >= 30
C9_FatigueDirection ==
  FatigueRan =>
    \A i \in 1..Len(simState.agents) :
      /\ FatigueSeen(i).status # "available"
           => simState.agents[i].fatigueFactor <= FatigueSeen(i).fatigueFactor
      /\ FatigueSeen(i).status = "available"
           => simState.agents[i].fatigueFactor >= FatigueSeen(i).fatigueFactor
      /\ simState.agents[i].fatigueFactor < FatigueSeen(i).fatigueFactor
           => \/ FatigueSeen(i).consecutiveDeliveriesSinceRest >= FATIGUE_THRESHOLD_DELIVERIES
              \/ FatigueSeen(i).timeContinuouslyActive >= FATIGUE_THRESHOLD_TIME_MIN
      /\ simState.agents[i].fatigueFactor > FatigueSeen(i).fatigueFactor
           => FatigueSeen(i).timeSpentIdle >= FATIGUE_RECOVERY_IDLE_TIME_MIN

\* a busy agent tired by its active time alone
C9_Witness ==
  /\ FatigueRan
  /\ \E i \in 1..Len(simState.agents) :
       /\ simState.agents[i].fatigueFactor < FatigueSeen(i).fatigueFactor
       /\ FatigueSeen(i).consecutiveDeliveriesSinceRest < FATIGUE_THRESHOLD_DELIVERIES
       /\ FatigueSeen(i).timeContinuouslyActive = FATIGUE_THRESHOLD_TIME_MIN

\* an idle agent that recovered
C9_WitnessRecovery ==
  /\ FatigueRan
  /\ \E i \in 1..Len(simState.agents) :
       /\ simState.agents[i].fatigueFactor > FatigueSeen(i).fatigueFactor
       /\ FatigueSeen(i).timeSpentIdle = FATIGUE_RECOVERY_IDLE_TIME_MIN

C11_PauseKeepsState ==
  /\ (opTrace.op = "tick" /\ ~opTrace.before.isRunning) => simState = opTrace.before
  /\ (opTrace.op = "pause" /\ opTrace.accepted)
       => simState = [opTrace.before EXCEPT !.isRunning = FALSE]
  /\ (opTrace.op = "start" /\ opTrace.resumed) => simState = opTrace.atPause.state
  /\ (opTrace.op = "tick" /\ opTrace.before.isRunning)
       => simState.currentSimulationTime
            = opTrace.before.currentSimulationTime + MINUTES_PER_SIMULATION_STEP

\* resumed after a pause that found an agent on its way and an order assigned
C11_Witness ==
  /\ opTrace.op = "start" /\ opTrace.resumed
  /\ simState.currentSimulationTime > 0
  /\ \E a \in Agents : a.status # "available" /\ a.routePath # << >>
  /\ \E o \in Orders : o.status # "pending"

\* a tick callback fired while the simulation was paused with work in flight
C11_WitnessStaleTick ==
  /\ opTrace.op = "tick" /\ ~opTrace.before.isRunning
  /\ simState.currentSimulationTime > 0
  /\ \E a \in Agents : a.status # "available"

\* C12: a change of agent count, agent speed or demand profile is refused
\* while the simulation is running (simParams and simState stay as they were),
\* and when it is accepted the simulation state is re-initialized in full:
\* clock 0, no orders, fresh available agents, zero counters.
C12_ConfigChangeReinitializes ==
  opTrace.op = "param" =>
    IF opTrace.before.isRunning
    THEN simParams = opTrace.paramsBefore /\ simState = opTrace.before
    ELSE /\ simParams # opTrace.paramsBefore
         /\ \E offs \in OffsetDraws(simParams.numAgents) :
              simState = initialSimState(simParams.numAgents, clusteredDarkStores, offs)

\* what the code does keep of C12: a change is refused while running, and an
\* accepted change of the agent count re-initializes
C12_RefusedWhileRunning ==
  opTrace.op = "param" =>
    IF opTrace.before.isRunning
    THEN simParams = opTrace.paramsBefore /\ simState = opTrace.before
    ELSE /\ simParams # opTrace.paramsBefore
         /\ opTrace.input = "numAgents" =>
              \E offs \in OffsetDraws(simParams.numAgents) :
                simState = initialSimState(simParams.numAgents, clusteredDarkStores, offs)

\* a change refused while running, with orders in the state
C12_WitnessRefused ==
  /\ opTrace.op = "param" /\ opTrace.before.isRunning
  /\ simState.orders # << >>

\* an accepted change of speed or profile that left a used state in place
C12_WitnessKept ==
  /\ opTrace.op = "param" /\ opTrace.accepted
  /\ opTrace.input # "numAgents"
  /\ simState.currentSimulationTime > 0 /\ simState.orders # << >>

\* what a tick computes and the KPIs show: simState without the two request
\* stamps
SimResults(st) ==
  [isRunning |-> st.isRunning, agents |-> st.agents, orders |-> st.orders,
   orderIdCounter |-> st.orderIdCounter,
   currentSimulationTime |-> st.currentSimulationTime,
   currentDynamicTrafficFactor |-> st.currentDynamicTrafficFactor,
   totalOrdersGenerated |-> st.totalOrdersGenerated,
   totalOrdersDelivered |-> st.totalOrdersDelivered,
   totalDeliveryTime |-> st.totalDeliveryTime,
   totalAgentTravelDistance |-> st.totalAgentTravelDistance,
   darkStoreLocations |-> st.darkStoreLocations]

\* C13: between any two advisory-text requests of one kind that are actually
\* sent, at least the cooldown of that kind elapses: a step that sends a
\* request happens no sooner than the cooldown after the previous request of
\* the kind was sent.
C13_CooldownBetweenSent ==
  [][\A kind \in {"analysis", "event"} :
       (ai.inFlight = "none" /\ ai'.inFlight = kind /\ ai.lastSent[kind] # Null)
         => ai'.now - ai.lastSent[kind] >= Cooldown(kind)]_vars

\* what the code does keep of C13: a request is sent no sooner than the
\* cooldown after the stamp in simState, which the last successful response
\* set and a reset clears
C13_CooldownAfterStamp ==
  [][\A kind \in {"analysis", "event"} :
       (ai.inFlight = "none" /\ ai'.inFlight = kind)
         => ai.now - LastRequestTime(simState, kind) >= Cooldown(kind)]_vars

\* C14: an advisory-text request never gates tick progress and never alters
\* simulation results.  While the simulation is running (and within the bound
\* of the run) the tick is enabled whether or not a request is in flight, a
\* tick taken while a request is in flight advances the clock by one step, and
\* a step that sends a request or receives its response or failure leaves the
\* clock, agents, orders and KPI counters as they were.
C14_AiNeverTouchesResults ==
  /\ [][(ai'.inFlight # ai.inFlight) => SimResults(simState') = SimResults(simState)]_vars
  /\ [][(ai.inFlight # "none" /\ ~ai.ticked /\ ai'.ticked)
          => simState'.currentSimulationTime
               = simState.currentSimulationTime + MINUTES_PER_SIMULATION_STEP]_vars
  /\ []((/\ simState.isRunning
         /\ simState.currentSimulationTime < MaxAiTicks * MINUTES_PER_SIMULATION_STEP)
          => ENABLED aiTick)

\* a response has arrived after ticks ran while its request was in flight
C14_Witness ==
  /\ ai.inFlight = "none" /\ ai.ticked
  /\ simState.lastAiAnalysisRequestTime > 0
  /\ simState.currentSimulationTime > 30
  /\ simState.orders # << >>

\* a response has arrived after the simulation was reset with the request in
\* flight
C14_WitnessAfterReset ==
  /\ ai.inFlight = "none" /\ ai.wasReset
  /\ simState.lastDynamicEventSuggestionTime > 0
  /\ simState.currentSimulationTime = 0


\* C15: a finished sweep with min <= max holds exactly one row for every agent
\* count from the minimum to the maximum, in ascending order; no run delivers
\* more orders than it generated, and completionRate is the delivered orders
\* over the generated orders of all runs of the row, as a percentage
C15_SweepRows ==
  /\ \A i \in 1..Len(opt.lastStats) :
       opt.lastStats[i].deliveredOrders <= opt.lastStats[i].generatedOrders
  /\ \A i \in 1..Len(opt.rows) :
       /\ opt.rows[i].numAgents = opt.params.minAgentsToTest + i - 1
       /\ opt.rows[i].completionRate >= 0
       /\ opt.rows[i].completionRate <= 10000
       /\ opt.rows[i].avgDeliveredOrders = 0 <=> opt.rows[i].completionRate = 0
  /\ (opt.runResults = << >> /\ Len(opt.rows) > 0)
       => /\ Len(opt.lastStats) = opt.params.numRunsPerAgentCount
          /\ opt.rows[Len(opt.rows)].completionRate =
               (SumField(opt.lastStats, "deliveredOrders") * 10000)
                  \div SumField(opt.lastStats, "generatedOrders")
  /\ (opt.pc = "done" /\ opt.params.minAgentsToTest <= opt.params.maxAgentsToTest)
       => Len(opt.rows) = opt.params.maxAgentsToTest - opt.params.minAgentsToTest + 1

C15_Witness ==
  /\ opt.pc = "done"
  /\ Len(opt.rows) = 3
  /\ opt.rows[1].completionRate < opt.rows[3].completionRate
  /\ opt.rows[3].completionRate < 10000


\* C16: the recommended row comes from the first non-empty set among (1) the
\* rows meeting the completion-rate, SLA and delivery-time targets, (2) the
\* rows above the relaxed completion rate, (3) all rows; no row of that set
\* has a lower cost per order, none of equal cost is inside the ideal
\* utilization band when the recommended row is outside, and none of equal
\* cost and equal band membership is closer to the middle of the band
C16_Recommendation ==
  opt.pc = "recommended" =>
    LET data == opt.rows
        Strict == { i \in 1..Len(data) :
                      /\ data[i].completionRate >= 9000
                      /\ data[i].percentageMeetingSLA >= 8500
                      /\ data[i].avgDeliveryTime <= opt.params.targetAvgDeliveryTime * TScale }
        Relaxed == { i \in 1..Len(data) : data[i].completionRate > 7200 }
        Pool == IF Strict # {} THEN Strict ELSE IF Relaxed # {} THEN Relaxed ELSE 1..Len(data)
        InBand(r) == r.avgAgentUtilization >= 6500 /\ r.avgAgentUtilization <= 8500
        Off(r) == IF r.avgAgentUtilization >= 7500 THEN r.avgAgentUtilization - 7500
                  ELSE 7500 - r.avgAgentUtilization
        Beats(a, b) ==
          \/ a.avgCostPerOrder < b.avgCostPerOrder
          \/ /\ a.avgCostPerOrder = b.avgCostPerOrder
             /\ \/ InBand(a) /\ ~InBand(b)
                \/ (InBand(a) <=> InBand(b)) /\ Off(a) < Off(b)
    IN  IF Len(data) = 0 THEN opt.best = << >>
        ELSE /\ Len(opt.best) = 1
             /\ \E i \in Pool : opt.best[1] = data[i]
             /\ \A j \in Pool : ~Beats(data[j], opt.best[1])

\* no row meets all targets, both rows pass the relaxed rate at equal cost, and
\* the second row, inside the band, is recommended over the first, outside it
C16_Witness ==
  /\ opt.pc = "recommended"
  /\ Len(opt.rows) = 2
  /\ \A i \in 1..2 : opt.rows[i].percentageMeetingSLA < 8500 /\ opt.rows[i].completionRate > 7200
  /\ opt.rows[1].avgCostPerOrder = opt.rows[2].avgCostPerOrder
  /\ opt.rows[1].avgAgentUtilization = 9000
  /\ opt.rows[2].avgAgentUtilization = 7000
  /\ opt.best = <<opt.rows[2]>>

\* a row that meets no target is recommended although no other row is worse
C16_WitnessAllRows ==
  /\ opt.pc = "recommended"
  /\ Len(opt.rows) = 2
  /\ \A i \in 1..2 : opt.rows[i].completionRate <= 7200
  /\ opt.rows[1].avgCostPerOrder > opt.rows[2].avgCostPerOrder
  /\ opt.best = <<opt.rows[2]>>

\* C17: every point getRandomPointInCcr returns for the configured region
\* passes isPointInPolygon against the ring of that region
C17_ReturnedPointInRegion ==
  (sampler.pc = "done" /\ sampler.ring = ccrRing)
    => isPointInPolygon(sampler.result, ccrRing)

\* what the code does for the configured region: every call of
\* getRandomPointInCcr uses up all attempts and returns the default point,
\* which fails the test as every other point does
C17_AlwaysDefault ==
  (sampler.pc = "done" /\ sampler.ring = ccrRing)
    => /\ sampler.result = defaultDarkStoreLocationSim
       /\ sampler.attempts = MAX_ATTEMPTS + 1
       /\ ~isPointInPolygon(sampler.result, ccrRing)

C17_WitnessDefault ==
  /\ sampler.pc = "done"
  /\ sampler.ring = ccrRing
  /\ sampler.caller = "getRandomPointInCcr"
  /\ sampler.result = defaultDarkStoreLocationSim

\* C18: getRandomPointInCcr terminates for every region: it draws at most
\* MAX_ATTEMPTS + 1 samples, a call in its loop always reaches its return, and
\* when no sample passed it returns the default point; a call of
\* getRandomPointNearHotspot returns at once or through getRandomPointInCcr
C18_SamplerTerminates ==
  /\ [](sampler.attempts <= MAX_ATTEMPTS + 1)
  /\ []((sampler.pc = "done" /\ sampler.attempts = MAX_ATTEMPTS + 1)
          => sampler.result = defaultDarkStoreLocationSim)
  /\ [](sampler.pc \in {"idle", "loop", "done"})
  /\ (sampler.pc = "loop") ~> (sampler.pc = "done")

C18_Witness ==
  /\ sampler.pc = "done"
  /\ sampler.caller = "getRandomPointNearHotspot"
  /\ sampler.attempts = MAX_ATTEMPTS + 1
  /\ sampler.result = defaultDarkStoreLocationSim

C18_WitnessSampleReturned ==
  /\ sampler.pc = "done"
  /\ sampler.ring = ccrRingLatLng
  /\ sampler.caller = "getRandomPointInCcr"
  /\ sampler.attempts = 1
  /\ sampler.result # defaultDarkStoreLocationSim

\* C19: every zone of every stored demand profile is well formed: an order
\* range with 0 <= minOrders <= maxOrders, hours within 0..23 with
\* startTime <= endTime, a hotspot with a center and a positive radius, a route
\* with at least 2 points and a positive buffer, a sector zone with a sector
C19_StoredZonesWellFormed ==
  \A p \in 1..Len(customDemandProfiles) :
    \A i \in 1..Len(customDemandProfiles[p].zones) :
      LET zone == customDemandProfiles[p].zones[i]
      IN  /\ zone.minOrders \in Nat /\ zone.maxOrders \in Nat
          /\ zone.minOrders <= zone.maxOrders
          /\ zone.startTime \in 0..23 /\ zone.endTime \in 0..23
          /\ zone.startTime <= zone.endTime
          /\ zone.type = "hotspot" => (zone.center # << >> /\ zone.radius \in Nat \ {0})
          /\ zone.type = "route" => (Len(zone.routePath) >= 2 /\ zone.buffer \in Nat \ {0})
          /\ zone.type = "sector" => Len(zone.sectors) > 0

\* what the code keeps: no stored zone fails a check of handleSaveProfile, and
\* a zone whose number fields all hold numbers is well formed
C19_StoredZonesPassChecks ==
  \A p \in 1..Len(customDemandProfiles) :
    \A i \in 1..Len(customDemandProfiles[p].zones) :
      LET zone == customDemandProfiles[p].zones[i]
      IN  /\ ~ZoneRejected(zone)
          /\ NaN \notin {zone.minOrders, zone.maxOrders, zone.startTime, zone.endTime,
                         zone.radius, zone.buffer}
               => /\ 0 <= zone.minOrders /\ zone.minOrders <= zone.maxOrders
                  /\ zone.startTime \in 0..23 /\ zone.endTime \in 0..23
                  /\ zone.startTime <= zone.endTime
                  /\ zone.type = "hotspot" => zone.radius > 0
                  /\ zone.type = "route" => zone.buffer > 0

\* a hotspot with a center and no radius has been stored
C19_WitnessNaNRadius ==
  /\ Len(customDemandProfiles) = 1
  /\ profileForm.modal = "Profile Saved"
  /\ customDemandProfiles[1].zones[1].type = "hotspot"
  /\ customDemandProfiles[1].zones[1].center # << >>
  /\ customDemandProfiles[1].zones[1].radius = NaN
  /\ customDemandProfiles[1].zones[1].minOrders = 5
  /\ customDemandProfiles[1].zones[1].startTime = 0

\* a save has been refused for a zone with maxOrders < minOrders
C19_WitnessRejected ==
  /\ Len(customDemandProfiles) = 0
  /\ profileForm.modal = "Validation Error"
  /\ profileForm.profileName # ""
  /\ Len(profileForm.zones) = 1
  /\ profileForm.zones[1].minOrders = 10
  /\ profileForm.zones[1].maxOrders = 5

\* length of what is left of the agent's route, from where the agent stands
RECURSIVE PathLength(_, _)
PathLength(path, k) ==
  IF k >= Len(path) THEN 0
  ELSE getDistanceKm(path[k], path[k + 1]) + PathLength(path, k + 1)

RemainingRoute(agent) ==
  IF Len(agent.routePath) = 0 \/ agent.currentLegIndex >= Len(agent.routePath) - 1 THEN 0
  ELSE getDistanceKm(<<agent.lat, agent.lng>>, agent.routePath[agent.currentLegIndex + 2])
         + PathLength(agent.routePath, agent.currentLegIndex + 2)

\* rounding of the leg lengths to whole metres, one metre per leg
DistanceTolerance == 4

\* what the movement step of the last tick added to the agent's totalDistance
AddedDistance(a) ==
  stepTrace.agentsBeforeFatigue[a].totalDistance - stepTrace.agentsAfterAssign[a].totalDistance

\* C20: in every tick an agent's totalDistance grows by the distance the agent
\* travelled along its route in that tick, which is never more than what was
\* left of the route when the tick began to move it
C20_DistanceIsTravelled ==
  \A a \in 1..Len(stepTrace.agentsBeforeFatigue) :
    AddedDistance(a) <= RemainingRoute(stepTrace.agentsAfterAssign[a]) + DistanceTolerance

\* what the code keeps: a tick adds to totalDistance either nothing or the
\* whole travel budget of the tick, effectiveSpeed / 60 * MINUTES_PER_SIMULATION_STEP
C20_BudgetOrNothing ==
  \A a \in 1..Len(stepTrace.agentsBeforeFatigue) :
    \/ AddedDistance(a) = 0
    \/ /\ RemainingRoute(stepTrace.agentsAfterAssign[a]) > 0
       /\ \E speed \in SpeedVals, traffic \in TrafficVals \cup DynamicTrafficDraws :
            AddedDistance(a) =
              (effectiveSpeed(speed, stepTrace.agentsAfterAssign[a].fatigueFactor, traffic)
                 * MINUTES_PER_SIMULATION_STEP) \div 60

\* an agent less than 100 m from the end of its route is credited more than 2 km
C20_WitnessOvershoot ==
  \E a \in 1..Len(stepTrace.agentsBeforeFatigue) :
    /\ RemainingRoute(stepTrace.agentsAfterAssign[a]) > 0
    /\ RemainingRoute(stepTrace.agentsAfterAssign[a]) < 100
    /\ AddedDistance(a) > 2000

\* C21: under repeated ticks every order that is assigned is eventually
\* delivered (here: an order assigned in the first tick, which leaves seven
\* more ticks, 35 minutes, for a route of at most 8 km and 5 minutes at the store)
C21_AssignedEventuallyDelivered ==
  \A i \in 1..MaxCycleOrders :
    []((/\ Len(simState.orders) >= i
        /\ simState.orders[i].status = "assigned"
        /\ simState.currentSimulationTime <= MINUTES_PER_SIMULATION_STEP)
         => <>(Len(simState.orders) >= i /\ simState.orders[i].status = "delivered"))

\* what the code does: a tick never takes an agent out of to_customer, never
\* moves it and never changes the status of its order
C21_ToCustomerNeverLeaves ==
  [][\A a \in 1..Len(simState.agents) :
       (/\ simState.agents[a].status = "to_customer"
        /\ simState'.currentSimulationTime > simState.currentSimulationTime)
         => /\ Len(simState'.agents) = Len(simState.agents)
            /\ simState'.agents[a].status = "to_customer"
            /\ simState'.agents[a].lat = simState.agents[a].lat
            /\ simState'.agents[a].lng = simState.agents[a].lng
            /\ simState'.agents[a].currentOrder = simState.agents[a].currentOrder
            /\ simState'.totalOrdersDelivered = 0]_vars

\* the agent has picked its order up 15 minutes ago and the order is not delivered
C21_WitnessStuck ==
  /\ Len(simState.orders) >= 1
  /\ simState.orders[1].status = "picked_up"
  /\ simState.orders[1].storeArrivalTime # Null
  /\ simState.currentSimulationTime >= simState.orders[1].storeArrivalTime + 20
  /\ simState.agents[1].status = "to_customer"
  /\ simState.agents[1].currentOrder = simState.orders[1].id

\* the leg index at which an agent stands on the store waypoint of its route
\* (the last point of the agent -> store segment)
StoreWaypointIndex == Len(generateWaypoints(<<0, 0>>, <<0, 0>>)) - 1

\* C22: an agent on its way to the store becomes at_store in the tick in which
\* it reaches the store waypoint: no state finds an agent still to_store at or
\* beyond that waypoint
C22_AtStoreOnReachingStore ==
  \A a \in 1..Len(simState.agents) :
    simState.agents[a].status = "to_store"
      => simState.agents[a].currentLegIndex < StoreWaypointIndex

\* what the code does: an agent is at_store only with its leg index at the end
\* of the whole route, the store -> customer legs included
C22_AtStoreOnlyAtRouteEnd ==
  \A a \in 1..Len(simState.agents) :
    simState.agents[a].status = "at_store"
      => simState.agents[a].currentLegIndex = Len(simState.agents[a].routePath) - 1

\* an agent that has walked past a store 3.9 km away, on the store -> customer
\* legs, and is still to_store
C22_WitnessPastStore ==
  /\ simState.agents[1].status = "to_store"
  /\ simState.agents[1].currentLegIndex >= StoreWaypointIndex
  /\ <<simState.agents[1].lat, simState.agents[1].lng>>
       # simState.agents[1].routePath[StoreWaypointIndex + 1]

\* the agents that the movement step of the last tick picked an order up with:
\* at_store when the step began, to_customer when it ended
PickedUpInLastTick ==
  { a \in 1..Len(stepTrace.agentsAfterAssign) :
      /\ stepTrace.agentsAfterAssign[a].status = "at_store"
      /\ stepTrace.agentsBeforeFatigue[a].status = "to_customer" }

\* C23: the tick in which the handling time at the store reaches 5 minutes makes
\* the order picked_up, the agent to_customer, and resets both the leg index
\* and the leg progress of the agent to 0
C23_PickupResetsLeg ==
  \A a \in PickedUpInLastTick :
    /\ stepTrace.agentsBeforeFatigue[a].currentLegIndex = 0
    /\ stepTrace.agentsBeforeFatigue[a].legProgress = 0
    /\ \E i \in 1..Len(simState.orders) :
         /\ simState.orders[i].id = stepTrace.agentsBeforeFatigue[a].currentOrder
         /\ simState.orders[i].status = "picked_up"

\* what the code does: the pickup resets the leg progress and keeps the leg index
C23_PickupKeepsLegIndex ==
  \A a \in PickedUpInLastTick :
    /\ stepTrace.agentsBeforeFatigue[a].currentLegIndex
         = stepTrace.agentsAfterAssign[a].currentLegIndex
    /\ stepTrace.agentsBeforeFatigue[a].routePath = stepTrace.agentsAfterAssign[a].routePath
    /\ stepTrace.agentsBeforeFatigue[a].legProgress = 0
    /\ \E i \in 1..Len(simState.orders) :
         /\ simState.orders[i].id = stepTrace.agentsBeforeFatigue[a].currentOrder
         /\ simState.orders[i].status = "picked_up"

\* a pickup that leaves the agent on the last point of its route
C23_WitnessPickup ==
  /\ 1 \in PickedUpInLastTick
  /\ stepTrace.agentsBeforeFatigue[1].currentLegIndex
       = Len(stepTrace.agentsBeforeFatigue[1].routePath) - 1
  /\ stepTrace.agentsBeforeFatigue[1].currentLegIndex > 0

\* the agents that arrived at a store in the movement step of the last tick
ArrivedAtStoreInLastTick ==
  { a \in 1..Len(stepTrace.agentsAfterAssign) :
      /\ stepTrace.agentsAfterAssign[a].status = "to_store"
      /\ stepTrace.agentsBeforeFatigue[a].status = "at_store" }

\* the store the assigner chose for the order an agent holds
ServingStore(agent) ==
  bestDarkStoreForOrder(simState.orders[FindOrder(simState.orders, agent.currentOrder)],
                        simState.darkStoreLocations)

\* C24: the store whose position an arriving agent is snapped to is the store
\* the assigner selected for its order, the one nearest to the order
C24_SnappedToServingStore ==
  \A a \in ArrivedAtStoreInLastTick :
    <<stepTrace.agentsBeforeFatigue[a].lat, stepTrace.agentsBeforeFatigue[a].lng>>
      = ServingStore(stepTrace.agentsBeforeFatigue[a])

\* what the code does: the agent is snapped to the first point of its route that
\* is the position of any store
C24_SnappedToFirstStoreOnRoute ==
  \A a \in ArrivedAtStoreInLastTick :
    <<stepTrace.agentsBeforeFatigue[a].lat, stepTrace.agentsBeforeFatigue[a].lng>>
      = FindStoreOnRoute(stepTrace.agentsBeforeFatigue[a].routePath,
                         simState.darkStoreLocations)

\* an agent that started on a store arrives for an order served by another store
C24_WitnessStartOnOtherStore ==
  /\ 1 \in ArrivedAtStoreInLastTick
  /\ \E d \in 1..Len(simState.darkStoreLocations) :
       /\ simState.darkStoreLocations[d] = stepTrace.agentsBeforeFatigue[1].routePath[1]
       /\ simState.darkStoreLocations[d] # ServingStore(stepTrace.agentsBeforeFatigue[1])

\* the zone of the profile a call of generateOrdersLogic was made with
GenZone == customDemandProfiles[1].zones[1]

\* const currentHour = Math.floor((currentTime / 60) % 24)
currentHour(currentTime) == (currentTime \div 60) % 24

\* a zone whose lowest rate is at least one order per tick
SureRate(zone) == zone.minOrders * MINUTES_PER_SIMULATION_STEP >= 60

\* the window test of the code holds
InWindow(zone, currentTime) ==
  currentTime >= zone.startTime * 60 /\ currentTime <= zone.endTime * 60

\* C25: a zone generates orders exactly when the hour of the day of the tick
\* lies in its window, on every simulated day: orders are spawned only in an
\* hour of the window, and a zone that spawns at least one order per active tick
\* spawns one in every tick whose hour is in the window and before its last hour
C25_EligibleByHourOfDay ==
  genCall.pc = "returned"
    => /\ Len(genCall.result.newOrders) > 0
            => /\ GenZone.startTime <= currentHour(genCall.currentTime)
               /\ currentHour(genCall.currentTime) <= GenZone.endTime
       /\ (/\ SureRate(GenZone)
           /\ GenZone.startTime <= currentHour(genCall.currentTime)
           /\ currentHour(genCall.currentTime) < GenZone.endTime)
            => Len(genCall.result.newOrders) > 0

\* what the code does: the window is a window of the minutes since the start
C25_EligibleByMinutesSinceStart ==
  genCall.pc = "returned"
    => /\ Len(genCall.result.newOrders) > 0 => InWindow(GenZone, genCall.currentTime)
       /\ (SureRate(GenZone) /\ InWindow(GenZone, genCall.currentTime))
            => Len(genCall.result.newOrders) > 0

\* after 24 hours the zone with window 0..23 and 12 orders per hour spawns nothing
C25_WitnessSecondDay ==
  /\ genCall.pc = "returned"
  /\ genCall.currentTime >= 24 * 60
  /\ GenZone.startTime = 0 /\ GenZone.endTime = 23
  /\ SureRate(GenZone)
  /\ Len(genCall.result.newOrders) = 0

\* C26: in a tick in which a zone is active it spawns floor(e) or ceil(e) orders,
\* e = r * 5 / 60 for a rate r between minOrders and maxOrders, so at least
\* floor(minOrders * 5 / 60) and at most ceil(maxOrders * 5 / 60)
C26_StochasticRounding ==
  (genCall.pc = "returned" /\ InWindow(GenZone, genCall.currentTime))
    => /\ Len(genCall.result.newOrders)
            >= (GenZone.minOrders * MINUTES_PER_SIMULATION_STEP) \div 60
       /\ Len(genCall.result.newOrders)
            <= (GenZone.maxOrders * MINUTES_PER_SIMULATION_STEP + 59) \div 60

\* what the code does: a zone spawns at most one order per tick
C26_AtMostOnePerZone ==
  genCall.pc = "returned" => Len(genCall.result.newOrders) <= 1

\* a zone with 24 orders per hour, two per tick, spawns one order in an active tick
C26_WitnessTwoExpected ==
  /\ genCall.pc = "returned"
  /\ InWindow(GenZone, genCall.currentTime)
  /\ GenZone.minOrders * MINUTES_PER_SIMULATION_STEP >= 2 * 60
  /\ Len(genCall.result.newOrders) = 1

\* a step of the model that is a tick of the running simulation
TickStep ==
  simState'.currentSimulationTime = simState.currentSimulationTime + MINUTES_PER_SIMULATION_STEP

\* C27: the generation step of a tick only appends to the order list; every
\* order it appends is pending, has no agent, no timestamps and an id no other
\* order has; the tick removes no order and changes no order's id, position or
\* timePlaced
C27_GenerationFrame ==
  [][TickStep =>
       /\ Len(stepTrace'.ordersBeforeAssign) >= Len(simState.orders)
       /\ SubSeq(stepTrace'.ordersBeforeAssign, 1, Len(simState.orders)) = simState.orders
       /\ \A i \in (Len(simState.orders) + 1)..Len(stepTrace'.ordersBeforeAssign) :
            /\ stepTrace'.ordersBeforeAssign[i].status = "pending"
            /\ stepTrace'.ordersBeforeAssign[i].assignedAgentId = Null
            /\ stepTrace'.ordersBeforeAssign[i].storeArrivalTime = Null
            /\ stepTrace'.ordersBeforeAssign[i].customerArrivalTime = Null
            /\ stepTrace'.ordersBeforeAssign[i].deliveryTime = Null
            /\ \A j \in 1..Len(stepTrace'.ordersBeforeAssign) :
                 j # i => stepTrace'.ordersBeforeAssign[j].id # stepTrace'.ordersBeforeAssign[i].id
       /\ Len(simState'.orders) = Len(stepTrace'.ordersBeforeAssign)
       /\ \A i \in 1..Len(stepTrace'.ordersBeforeAssign) :
            /\ simState'.orders[i].id = stepTrace'.ordersBeforeAssign[i].id
            /\ simState'.orders[i].lat = stepTrace'.ordersBeforeAssign[i].lat
            /\ simState'.orders[i].lng = stepTrace'.ordersBeforeAssign[i].lng
            /\ simState'.orders[i].timePlaced = stepTrace'.ordersBeforeAssign[i].timePlaced]_vars

\* the last tick appended an order to a list that held an order an agent has
\* been assigned to
C27_WitnessAppended ==
  /\ Len(simState.orders) >= 2
  /\ Len(stepTrace.ordersBeforeAssign) = Len(simState.orders)
  /\ stepTrace.ordersBeforeAssign[1].status # "pending"
  /\ simState.orders[1].timePlaced < simState.currentSimulationTime
  /\ stepTrace.ordersBeforeAssign[Len(simState.orders)].status = "pending"
  /\ simState.orders[Len(simState.orders)].timePlaced = simState.currentSimulationTime

\* order i is in flight: assigned to an agent and not yet delivered
InFlight(i) == simState.orders[i].status \in {"assigned", "picked_up"}

\* C28: agents and orders in flight are matched one to one: an agent holds an
\* order exactly when that order is in flight and names the agent; no two agents
\* hold the same order; an agent on its way to or at the store holds an assigned
\* order, an agent on its way to the customer a picked_up order
C28_AgentsMatchOrders ==
  /\ \A a \in 1..Len(simState.agents), i \in 1..Len(simState.orders) :
       simState.agents[a].currentOrder = simState.orders[i].id
         <=> (simState.orders[i].assignedAgentId = simState.agents[a].id /\ InFlight(i))
  /\ \A a \in 1..Len(simState.agents) :
       /\ simState.agents[a].currentOrder # Null
            => \E i \in 1..Len(simState.orders) :
                 simState.orders[i].id = simState.agents[a].currentOrder
       /\ simState.agents[a].status = "available" <=> simState.agents[a].currentOrder = Null
       /\ \A b \in 1..Len(simState.agents) :
            (a # b /\ simState.agents[a].currentOrder # Null)
              => simState.agents[a].currentOrder # simState.agents[b].currentOrder
       /\ \A i \in 1..Len(simState.orders) :
            simState.orders[i].id = simState.agents[a].currentOrder
              => /\ simState.agents[a].status \in {"to_store", "at_store"}
                      => simState.orders[i].status = "assigned"
                 /\ simState.agents[a].status = "to_customer"
                      => simState.orders[i].status = "picked_up"

\* two agents hold an order each, one assigned and one picked up, and a third
\* order waits
C28_WitnessTwoInFlight ==
  /\ Len(simState.agents) = 2
  /\ Len(simState.orders) = 3
  /\ \E a, b \in 1..2 :
       /\ simState.agents[a].status = "to_customer"
       /\ simState.agents[b].status \in {"to_store", "at_store"}
  /\ \E i \in 1..3 : simState.orders[i].status = "pending"

\* the sum of deliveryTime over the delivered orders among the first k orders
RECURSIVE DeliveredTimeUpTo(_)
DeliveredTimeUpTo(k) ==
  IF k = 0 THEN 0
  ELSE DeliveredTimeUpTo(k - 1)
         + (IF simState.orders[k].status = "delivered" THEN simState.orders[k].deliveryTime ELSE 0)

\* C29: the counters agree with the order list: totalOrdersGenerated is the
\* number of orders, totalOrdersDelivered the number of delivered orders and
\* totalDeliveryTime the sum of their delivery times
C29_CountersMatchOrders ==
  /\ simState.totalOrdersGenerated = Len(simState.orders)
  /\ simState.totalOrdersDelivered
       = Cardinality({ i \in 1..Len(simState.orders) : simState.orders[i].status = "delivered" })
  /\ simState.totalDeliveryTime = DeliveredTimeUpTo(Len(simState.orders))

\* a tick has generated two orders at once, after a tick that generated one
C29_WitnessTwoInOneTick ==
  /\ simState.totalOrdersGenerated = 3
  /\ simState.orders[2].timePlaced = simState.orders[3].timePlaced
  /\ simState.orders[1].timePlaced < simState.orders[2].timePlaced

\* the sweep runs on record: the runs of the agent count that was simulated last
SweepRuns == { opt.lastStats[r] : r \in 1..Len(opt.lastStats) }

\* the length of the sweep horizon in the unit of the run's times
Horizon == opt.params.maxSimTimePerIteration * TScale

\* C30: in every run of the sweep the deliveries of an agent occupy intervals
\* inside [0, horizon] that do not overlap each other, the active time of an
\* agent is the sum of their lengths and at most the horizon, and the average
\* utilization of the run is at most 100 percent
C30_DeliveriesDoNotOverlap ==
  \A stats \in SweepRuns :
    /\ \A a \in 1..Len(stats.agents) :
         LET iv == stats.agents[a].intervals
         IN  /\ \A k \in 1..Len(iv) : 0 <= iv[k][1] /\ iv[k][1] <= iv[k][2] /\ iv[k][2] <= Horizon
             /\ \A k, l \in 1..Len(iv) : k < l => iv[k][2] <= iv[l][1]
             /\ stats.agents[a].totalActiveTimeThisRun
                  = SumInts([k \in 1..Len(iv) |-> iv[k][2] - iv[k][1]])
             /\ stats.agents[a].totalActiveTimeThisRun <= Horizon
    /\ stats.avgUtilization <= 100 * 100

\* a run in which an agent was still busy when its next order was placed and
\* took it the moment it completed the previous one
C30_WitnessBackToBack ==
  \E stats \in SweepRuns :
    \E a \in 1..Len(stats.agents) :
      /\ Len(stats.agents[a].intervals) >= 2
      /\ stats.agents[a].intervals[2][1] = stats.agents[a].intervals[1][2]
      /\ stats.agents[a].intervals[2][1] % (MINUTES_PER_SIMULATION_STEP * TScale) # 0
====
